---- MODULE Spec2Model ----
(***************************************************************************)
(* A model of the mapkey pipeline of vscodeCreo:                           *)
(*   - the Graph Analyzer of server/mapkeyStructure.js (buildCallGraph,    *)
(*     getMapkeyDepth, findCircularDependencies, checkNestingDepth), as    *)
(*     operators applied by atomic actions (Spec) and as a step-by-step    *)
(*     recursion with an explicit call stack (SpecDFS);                    *)
(*   - the Segmenter of server/blockTokenizer.js (extractMapkeyBlocks), as *)
(*     a line-by-line state machine (SpecSeg).                             *)
(***************************************************************************)
EXTENDS Integers, Sequences, FiniteSets, TLC

VARIABLES
    defs,        \* the MapkeyDefinition[] parseMapkeys(text) returns: name, calledMapkeys
    op,          \* the Graph Analyzer function that ran last ("none" before any)
    arg,         \* its argument: a mapkey name, or the limit the caller asked for
    callGraph,   \* what buildCallGraph returned
    depth,       \* what getMapkeyDepth returned (or that it threw)
    cycles,      \* what findCircularDependencies returned (or that it threw)
    violations,  \* what checkNestingDepth returned (or that it threw)
    pc,          \* step-by-step run: "idle", "depth", "cycles", "returned" or "threw"
    stack,       \* its call stack: the frames of calculateDepth or of findCycles
    cyclesSoFar, \* findCircularDependencies: the `cycles` array so far
    visitedTop,  \* findCircularDependencies: the `visited` set
    topK,        \* findCircularDependencies: position of the loop over Object.keys
    lines,       \* extractMapkeyBlocks: text.split("\n"), each line a sequence of characters
    lineIdx,     \* extractMapkeyBlocks: i, the index of the line to read next (from 0)
    currentOffset, \* extractMapkeyBlocks: offset of that line in the text
    blocks,      \* extractMapkeyBlocks: the blocks pushed so far
    cur,         \* extractMapkeyBlocks: the block being collected (name, start, end, collected)
    segpc,       \* extractMapkeyBlocks: "idle", "scan", "collect", "close" or "returned"
    impl,        \* which extractMapkeyBlocks runs: "first" and "second" of
                 \* blockTokenizer.js, or "quickref" of mapkeyStructure-quick-ref.md
    tokenized,   \* what tokenize(text) returned
    parsed,      \* what parseMapkeys(text) returned over that text (or that it threw)
    earlier,     \* the calls of tokenize that returned before: their text and result
    lookup,      \* the position lookup that ran last: its function, position and result
    scan,        \* tokenize over the table of regexes: the entry, regex.lastIndex, the tokens
    foldingRanges \* the folding ranges addRegionFolding has pushed

graphVars == <<defs, op, arg, callGraph, depth, cycles, violations>>

stepVars == <<pc, stack, cyclesSoFar, visitedTop, topK>>

segVars == <<lines, lineIdx, currentOffset, blocks, cur, segpc>>

tokVars == <<impl, tokenized, parsed, earlier, lookup, scan, foldingRanges>>

vars == <<graphVars, stepVars, segVars, tokVars>>

-----------------------------------------------------------------------------
(* Bounds of the model.                                                    *)

\* Size of a typed document: its definitions plus its nested calls.
MaxSize == 5
\* Longest chain document R1 -> R2 -> ... -> Rn a run may start with.
MaxChain == 7
\* Size of a document of the step-by-step run, and its longest chain.
MaxStepSize == 4
MaxStepChain == 4
\* Cap of the call stack of the step-by-step run; DFS_StackBound shows that
\* the recursion of the code stays below it.
MaxStack == MaxChain + 3
\* Lines of a document of the Segmenter.
MaxLines == 4
\* Lines of a text that is tokenized.
MaxTokLines == 3
\* Lines of a text that is edited and tokenized again, and calls of tokenize.
MaxAgainLines == 2
MaxCalls == 3

\* The tokens one run of tokenize over the table of regexes may push beyond
\* two for each line of the text.
MaxTableTokens == 2

\* Lines of a document that is folded.
MaxFoldLines == 4

-----------------------------------------------------------------------------
(* Small helpers.                                                          *)

Max(S) == CHOOSE m \in S : \A x \in S : x <= m

Range(s) == {s[i] : i \in 1..Len(s)}

\* Array.prototype.indexOf on a sequence that holds x (1-based here).
IndexOf(s, x) == CHOOSE i \in 1..Len(s) : s[i] = x /\ \A j \in 1..(i - 1) : s[j] # x

-----------------------------------------------------------------------------
(* The names of the model.                                                 *)

\* Names records are declared with.
DefNames == {"A", "B", "C"}

\* Members every object literal inherits from Object.prototype, with the
\* `length` of the function each one is.
ObjectPrototype == [constructor |-> 1, toString |-> 0]

InheritedNames == DOMAIN ObjectPrototype

\* Names a record may call: declared ones (dangling when the document does
\* not declare them) and names that are also members of Object.prototype.
CallNames == DefNames \cup InheritedNames

ChainNames == <<"R1", "R2", "R3", "R4", "R5", "R6", "R7", "R8", "R9">>

-----------------------------------------------------------------------------
(* The documents the analyses are run on, as parseMapkeys returns them.    *)

MapkeyDefinition(n, calls) == [name |-> n, calledMapkeys |-> calls]

\* Size of a document: its definitions plus their nested calls.
RECURSIVE Size(_)
Size(d) == IF d = <<>> THEN 0 ELSE 1 + Len(Head(d).calledMapkeys) + Size(Tail(d))

\* The chain R1 -> ... -> Rn.
Chain(n) ==
    [i \in 1..n |-> MapkeyDefinition(ChainNames[i],
                        IF i < n THEN <<ChainNames[i + 1]>> ELSE <<>>)]

\* A chain with one more call, from Ri to Rj, before or after Ri's own call.
ChainWithEdge(n, i, j, first) ==
    [Chain(n) EXCEPT ![i].calledMapkeys =
        IF first THEN <<ChainNames[j]>> \o @ ELSE Append(@, ChainNames[j])]

\* The chains of m records or less, bare and with one more call.
ChainDocs(m) ==
    {Chain(n) : n \in 1..m}
    \cup {ChainWithEdge(q[1], q[2], q[3], q[4]) :
            q \in {r \in (1..m) \X (1..m) \X (1..m) \X BOOLEAN :
                     r[2] <= r[1] /\ r[3] <= r[1]}}

NamesOf(d) == {d[i].name : i \in 1..Len(d)}

-----------------------------------------------------------------------------
(* What a JavaScript call gives back: a value, or a TypeError thrown.      *)

Returned(v) == [threw |-> FALSE, value |-> v]
Thrown(v) == [threw |-> TRUE, value |-> v]

-----------------------------------------------------------------------------
(* buildCallGraph: an object literal filled by graph[mapkey.name] = ...    *)
(* The object is modelled by its own properties in Object.keys order.      *)

OwnKeys(graph) == [i \in 1..Len(graph) |-> graph[i].key]

HasOwn(graph, k) == \E i \in 1..Len(graph) : graph[i].key = k

\* graph[k] = v: a new key goes last, an existing key keeps its place and
\* takes the new value.
\* Variant: every assignment adds an entry, also for a key already there.
SetPropertyAppend(graph, k, v) == Append(graph, [key |-> k, value |-> v])

\* Variant: an existing key keeps its first value.
SetPropertyFirstWins(graph, k, v) ==
    IF HasOwn(graph, k) THEN graph ELSE Append(graph, [key |-> k, value |-> v])

SetProperty(graph, k, v) ==
    IF HasOwn(graph, k)
    THEN [i \in 1..Len(graph) |-> IF graph[i].key = k THEN [key |-> k, value |-> v] ELSE graph[i]]
    ELSE Append(graph, [key |-> k, value |-> v])

RECURSIVE buildCallGraphFrom(_, _, _)
buildCallGraphFrom(mapkeys, i, graph) ==
    IF i > Len(mapkeys) THEN graph
    ELSE buildCallGraphFrom(mapkeys, i + 1,
            SetProperty(graph, mapkeys[i].name, mapkeys[i].calledMapkeys))

buildCallGraph(mapkeys) == buildCallGraphFrom(mapkeys, 1, <<>>)

\* callGraph[name] || []: the own property, else the member inherited from
\* Object.prototype (a function, which is truthy), else [].
Callees(graph, name) ==
    IF HasOwn(graph, name)
    THEN LET v == graph[CHOOSE i \in 1..Len(graph) : graph[i].key = name].value
         IN [isArray |-> TRUE, length |-> Len(v), items |-> v]
    ELSE IF name \in InheritedNames
    THEN [isArray |-> FALSE, length |-> ObjectPrototype[name], items |-> <<>>]
    ELSE [isArray |-> TRUE, length |-> 0, items |-> <<>>]

-----------------------------------------------------------------------------
(* getMapkeyDepth                                                          *)

\* Variant: the caller does not count its own edge (no `1 +`).
RECURSIVE calculateDepthNoEdge(_, _, _)
calculateDepthNoEdge(graph, name, visited) ==
    IF name \in visited THEN Returned(0)
    ELSE LET callees == Callees(graph, name) IN
         IF callees.length = 0 THEN Returned(0)
         ELSE IF ~callees.isArray THEN Thrown(0)
         ELSE LET depths == [i \in 1..callees.length |->
                               calculateDepthNoEdge(graph, callees.items[i], visited \cup {name})]
              IN IF \E i \in 1..callees.length : depths[i].threw THEN Thrown(0)
                 ELSE Returned(Max({depths[i].value : i \in 1..callees.length} \cup {0}))

RECURSIVE calculateDepth(_, _, _)
calculateDepth(graph, name, visited) ==
    IF name \in visited THEN Returned(0)
    ELSE LET callees == Callees(graph, name) IN
         IF callees.length = 0 THEN Returned(0)
         ELSE IF ~callees.isArray THEN Thrown(0)      \* callees.map is not a function
         ELSE LET depths == [i \in 1..callees.length |->
                               calculateDepth(graph, callees.items[i], visited \cup {name})]
              IN IF \E i \in 1..callees.length : depths[i].threw THEN Thrown(0)
                 ELSE Returned(1 + Max({depths[i].value : i \in 1..callees.length} \cup {0}))

getMapkeyDepth(mapkeys, mapkeyName) == calculateDepth(buildCallGraph(mapkeys), mapkeyName, {})

-----------------------------------------------------------------------------
(* findCircularDependencies                                                *)

\* Variant: the recorded cycle lacks the closing name.
RECURSIVE findCyclesOpen(_, _, _, _, _), findCyclesOpenOver(_, _, _, _, _, _)
findCyclesOpen(graph, visited, name, path, found) ==
    IF name \in Range(path)
    THEN Returned(Append(found, SubSeq(path, IndexOf(path, name), Len(path))))
    ELSE IF name \in visited THEN Returned(found)
    ELSE LET callees == Callees(graph, name) IN
         IF ~callees.isArray THEN Thrown(found)
         ELSE findCyclesOpenOver(graph, visited, callees.items, 1, Append(path, name), found)

findCyclesOpenOver(graph, visited, callees, i, path, found) ==
    IF i > Len(callees) THEN Returned(found)
    ELSE LET r == findCyclesOpen(graph, visited, callees[i], path, found) IN
         IF r.threw THEN r
         ELSE findCyclesOpenOver(graph, visited, callees, i + 1, path, r.value)

\* findCycles(name, path) with the cycles found so far; `visited` is the set
\* of the enclosing function.  The result is the cycles list afterwards.
RECURSIVE findCycles(_, _, _, _, _), findCyclesOver(_, _, _, _, _, _)
findCycles(graph, visited, name, path, found) ==
    IF name \in Range(path)
    THEN Returned(Append(found, SubSeq(path, IndexOf(path, name), Len(path)) \o <<name>>))
    ELSE IF name \in visited THEN Returned(found)
    ELSE LET callees == Callees(graph, name) IN
         IF ~callees.isArray THEN Thrown(found)       \* callees is not iterable
         ELSE findCyclesOver(graph, visited, callees.items, 1, Append(path, name), found)

\* for (const callee of callees) findCycles(callee, [...path, name])
findCyclesOver(graph, visited, callees, i, path, found) ==
    IF i > Len(callees) THEN Returned(found)
    ELSE LET r == findCycles(graph, visited, callees[i], path, found) IN
         IF r.threw THEN r
         ELSE findCyclesOver(graph, visited, callees, i + 1, path, r.value)

\* for (const mapkeyName of Object.keys(callGraph)) ...
RECURSIVE findCyclesTop(_, _, _, _)
findCyclesTop(graph, k, visited, found) ==
    IF k > Len(graph) THEN Returned(found)
    ELSE LET mapkeyName == graph[k].key IN
         IF mapkeyName \in visited THEN findCyclesTop(graph, k + 1, visited, found)
         ELSE LET r == findCycles(graph, visited, mapkeyName, <<>>, found) IN
              IF r.threw THEN r
              ELSE findCyclesTop(graph, k + 1, visited \cup {mapkeyName}, r.value)

findCircularDependencies(mapkeys) == findCyclesTop(buildCallGraph(mapkeys), 1, {}, <<>>)

-----------------------------------------------------------------------------
(* checkNestingDepth                                                       *)

NestingLimit == 5

\* Variant: a depth equal to the limit is reported too (>= for >).
RECURSIVE checkNestingDepthAtLimit(_, _, _)
checkNestingDepthAtLimit(mapkeys, i, found) ==
    IF i > Len(mapkeys) THEN Returned(found)
    ELSE LET d == getMapkeyDepth(mapkeys, mapkeys[i].name) IN
         IF d.threw THEN Thrown(found)
         ELSE checkNestingDepthAtLimit(mapkeys, i + 1,
                IF d.value >= NestingLimit
                THEN Append(found, [mapkey |-> mapkeys[i].name, depth |-> d.value])
                ELSE found)

RECURSIVE checkNestingDepthFrom(_, _, _)
checkNestingDepthFrom(mapkeys, i, found) ==
    IF i > Len(mapkeys) THEN Returned(found)
    ELSE LET d == getMapkeyDepth(mapkeys, mapkeys[i].name) IN
         IF d.threw THEN Thrown(found)
         ELSE checkNestingDepthFrom(mapkeys, i + 1,
                IF d.value > NestingLimit
                THEN Append(found, [mapkey |-> mapkeys[i].name, depth |-> d.value])
                ELSE found)

checkNestingDepth(mapkeys) == checkNestingDepthFrom(mapkeys, 1, <<>>)

-----------------------------------------------------------------------------
(* The Graph Analyzer as atomic calls on one document.                     *)

NoResult == Returned(<<>>)

\* null, where a lookup returns what it found as a list of one element
Null == <<>>

\* tokenize over the table of regexes has not been called.
NoScan == [def |-> 1, lastIndex |-> 0, tokens |-> <<>>]

\* No position lookup has run.
NoLookup == [fn |-> "none", position |-> 0, result |-> Returned(Null)]

\* No block is being collected.
NoBlock == [id |-> <<>>, name |-> <<>>, start |-> 0, end |-> 0, collected |-> <<>>, tokens |-> <<>>]

\* extractMapkeyBlocks has not been called.
SegIdle ==
    /\ lines = << <<>> >>
    /\ lineIdx = 0
    /\ currentOffset = 0
    /\ blocks = <<>>
    /\ cur = NoBlock
    /\ segpc = "idle"
    /\ impl = "second"
    /\ tokenized = <<>>
    /\ parsed = NoResult
    /\ lookup = NoLookup
    /\ scan = NoScan
    /\ foldingRanges = <<>>
    /\ earlier = <<>>

\* Names getMapkeyDepth is asked about.
AskedNames(d) == NamesOf(d) \cup UNION {Range(d[i].calledMapkeys) : i \in 1..Len(d)} \cup CallNames

\* Limits a caller of the nesting check may have in mind.
Limits == {NestingLimit - 1, NestingLimit}

\* No analysis has been called.
GraphIdle ==
    /\ op = "none"
    /\ arg = "none"
    /\ callGraph = <<>>
    /\ depth = Returned(0)
    /\ cycles = NoResult
    /\ violations = NoResult
    /\ pc = "idle"
    /\ stack = <<>>
    /\ cyclesSoFar = <<>>
    /\ visitedTop = {}
    /\ topK = 1

Init ==
    /\ defs \in {<<>>} \cup ChainDocs(MaxChain)
    /\ GraphIdle
    /\ SegIdle

\* The document gets one more record: parseMapkeys returns one more
\* definition, with no nested call yet.
TypeDefinition(n, max) ==
    /\ op = "none" /\ pc = "idle"
    /\ Size(defs) < max
    /\ defs' = Append(defs, MapkeyDefinition(n, <<>>))
    /\ UNCHANGED <<op, arg, callGraph, depth, cycles, violations, stepVars, segVars, tokVars>>

\* The last record of the document gets one more nested call.
TypeCall(c, max) ==
    /\ op = "none" /\ pc = "idle"
    /\ defs # <<>>
    /\ Size(defs) < max
    /\ defs' = [defs EXCEPT ![Len(defs)].calledMapkeys = Append(@, c)]
    /\ UNCHANGED <<op, arg, callGraph, depth, cycles, violations, stepVars, segVars, tokVars>>

BuildCallGraph ==
    /\ op = "none"
    /\ op' = "buildCallGraph"
    /\ callGraph' = buildCallGraph(defs)
    /\ UNCHANGED <<defs, arg, depth, cycles, violations, stepVars, segVars, tokVars>>

GetMapkeyDepth(mapkeyName) ==
    /\ op = "none"
    /\ op' = "getMapkeyDepth"
    /\ arg' = mapkeyName
    /\ depth' = getMapkeyDepth(defs, mapkeyName)
    /\ UNCHANGED <<defs, callGraph, cycles, violations, stepVars, segVars, tokVars>>

FindCircularDependencies ==
    /\ op = "none"
    /\ op' = "findCircularDependencies"
    /\ cycles' = findCircularDependencies(defs)
    /\ UNCHANGED <<defs, arg, callGraph, depth, violations, stepVars, segVars, tokVars>>

\* checkNestingDepth(text) has no limit parameter: what the caller wants is
\* recorded, and the function cannot read it.
CheckNestingDepth(limit) ==
    /\ op = "none"
    /\ op' = "checkNestingDepth"
    /\ arg' = limit
    /\ violations' = checkNestingDepth(defs)
    /\ UNCHANGED <<defs, callGraph, depth, cycles, stepVars, segVars, tokVars>>

Next ==
    \/ \E n \in DefNames : TypeDefinition(n, MaxSize)
    \/ \E c \in CallNames : TypeCall(c, MaxSize)
    \/ BuildCallGraph
    \/ \E n \in AskedNames(defs) : GetMapkeyDepth(n)
    \/ FindCircularDependencies
    \/ \E l \in Limits : CheckNestingDepth(l)

Spec == Init /\ [][Next]_vars

-----------------------------------------------------------------------------
(* getMapkeyDepth and findCircularDependencies step by step: one action    *)
(* per entry into the recursive function, per iteration of its loop over   *)
(* the callees, and per return.                                            *)

\* A frame of calculateDepth(name, visited) or of findCycles(name, path):
\* i = 0 before the body ran, then the position in `callees`.
Frame(name, visited, path) ==
    [name |-> name, visited |-> visited, path |-> path, i |-> 0, callees |-> <<>>, best |-> 0]

Top == stack[Len(stack)]

SetTop(f) == [stack EXCEPT ![Len(stack)] = f]

\* The names of the documents of the step-by-step run.
StepDefNames == {"A", "B"}

StepCallNames == StepDefNames \cup {"constructor"}

InitDFS ==
    /\ defs \in {<<>>} \cup ChainDocs(MaxStepChain)
    /\ GraphIdle
    /\ SegIdle

\* return calculateDepth(mapkeyName)
StartDepth(mapkeyName) ==
    /\ pc = "idle"
    /\ pc' = "depth"
    /\ arg' = mapkeyName
    /\ stack' = <<Frame(mapkeyName, {}, <<>>)>>
    /\ UNCHANGED <<segVars, tokVars, callGraph, violations, defs, op, depth, cycles, cyclesSoFar, visitedTop, topK>>

\* `return v` of calculateDepth: to the caller's map, or to getMapkeyDepth.
DepthReturn(v) ==
    IF Len(stack) = 1
    THEN /\ pc' = "returned"
         /\ op' = "getMapkeyDepth"
         /\ depth' = Returned(v)
         /\ stack' = <<>>
    ELSE /\ stack' = [SubSeq(stack, 1, Len(stack) - 1) EXCEPT
                        ![Len(stack) - 1].i = @ + 1,
                        ![Len(stack) - 1].best = IF v > @ THEN v ELSE @]
         /\ UNCHANGED <<pc, op, depth>>

\* Variant: visited.add(name) is missing.
DepthEnterNoAdd ==
    /\ pc = "depth"
    /\ Top.i = 0
    /\ LET callees == Callees(buildCallGraph(defs), Top.name) IN
       IF Top.name \in Top.visited THEN DepthReturn(0)
       ELSE IF callees.length = 0 THEN DepthReturn(0)
       ELSE IF ~callees.isArray
       THEN /\ pc' = "threw"
            /\ op' = "getMapkeyDepth"
            /\ depth' = Thrown(0)
            /\ stack' = <<>>
       ELSE /\ stack' = SetTop([Top EXCEPT !.i = 1, !.callees = callees.items])
            /\ UNCHANGED <<pc, op, depth>>
    /\ UNCHANGED <<segVars, tokVars, callGraph, violations, defs, arg, cycles, cyclesSoFar, visitedTop, topK>>

\* Entry of calculateDepth, down to the call of callees.map.
DepthEnter ==
    /\ pc = "depth"
    /\ Top.i = 0
    /\ LET callees == Callees(buildCallGraph(defs), Top.name) IN
       IF Top.name \in Top.visited THEN DepthReturn(0)
       ELSE IF callees.length = 0 THEN DepthReturn(0)
       ELSE IF ~callees.isArray
       THEN /\ pc' = "threw"
            /\ op' = "getMapkeyDepth"
            /\ depth' = Thrown(0)
            /\ stack' = <<>>
       ELSE /\ stack' = SetTop([Top EXCEPT !.i = 1, !.callees = callees.items,
                                           !.visited = @ \cup {Top.name}])
            /\ UNCHANGED <<pc, op, depth>>
    /\ UNCHANGED <<segVars, tokVars, callGraph, violations, defs, arg, cycles, cyclesSoFar, visitedTop, topK>>

\* callee => calculateDepth(callee, new Set(visited))
DepthCall ==
    /\ pc = "depth"
    /\ Top.i >= 1 /\ Top.i <= Len(Top.callees)
    /\ Len(stack) < MaxStack
    /\ stack' = Append(stack, Frame(Top.callees[Top.i], Top.visited, <<>>))
    /\ UNCHANGED <<segVars, tokVars, callGraph, violations, defs, op, arg, depth, cycles, pc, cyclesSoFar, visitedTop, topK>>

\* return 1 + Math.max(...depths, 0)
DepthFinish ==
    /\ pc = "depth"
    /\ Top.i > Len(Top.callees)
    /\ DepthReturn(1 + Top.best)
    /\ UNCHANGED <<segVars, tokVars, callGraph, violations, defs, arg, cycles, cyclesSoFar, visitedTop, topK>>

StartCycles ==
    /\ pc = "idle"
    /\ pc' = "cycles"
    /\ UNCHANGED <<segVars, tokVars, callGraph, violations, defs, op, arg, depth, cycles, stack, cyclesSoFar, visitedTop, topK>>

\* The loop over Object.keys(callGraph), between two calls of findCycles.
CyclesTop ==
    /\ pc = "cycles"
    /\ stack = <<>>
    /\ LET graph == buildCallGraph(defs) IN
       IF topK > Len(graph)
       THEN /\ pc' = "returned"
            /\ op' = "findCircularDependencies"
            /\ cycles' = Returned(cyclesSoFar)
            /\ UNCHANGED <<stack, topK>>
       ELSE IF graph[topK].key \in visitedTop
       THEN /\ topK' = topK + 1
            /\ UNCHANGED <<pc, op, cycles, stack>>
       ELSE /\ stack' = <<Frame(graph[topK].key, {}, <<>>)>>
            /\ UNCHANGED <<pc, op, cycles, topK>>
    /\ UNCHANGED <<segVars, tokVars, callGraph, violations, defs, arg, depth, cyclesSoFar, visitedTop>>

\* `return` of findCycles: to the caller's loop, or to the loop over the
\* keys, which then runs visited.add(mapkeyName).
CyclesReturn ==
    IF Len(stack) = 1
    THEN /\ stack' = <<>>
         /\ visitedTop' = visitedTop \cup {Top.name}
         /\ topK' = topK + 1
    ELSE /\ stack' = [SubSeq(stack, 1, Len(stack) - 1) EXCEPT ![Len(stack) - 1].i = @ + 1]
         /\ UNCHANGED <<visitedTop, topK>>

\* Entry of findCycles, down to the for...of loop.
CyclesEnter ==
    /\ pc = "cycles"
    /\ stack # <<>>
    /\ Top.i = 0
    /\ LET callees == Callees(buildCallGraph(defs), Top.name) IN
       IF Top.name \in Range(Top.path)
       THEN /\ cyclesSoFar' = Append(cyclesSoFar, SubSeq(Top.path, IndexOf(Top.path, Top.name), Len(Top.path))
                                       \o <<Top.name>>)
            /\ CyclesReturn
            /\ UNCHANGED <<pc, op, cycles>>
       ELSE IF Top.name \in visitedTop
       THEN /\ CyclesReturn
            /\ UNCHANGED <<pc, op, cycles, cyclesSoFar>>
       ELSE IF ~callees.isArray
       THEN /\ pc' = "threw"
            /\ op' = "findCircularDependencies"
            /\ cycles' = Thrown(cyclesSoFar)
            /\ stack' = <<>>
            /\ UNCHANGED <<cyclesSoFar, visitedTop, topK>>
       ELSE /\ stack' = SetTop([Top EXCEPT !.i = 1, !.callees = callees.items])
            /\ UNCHANGED <<pc, op, cycles, cyclesSoFar, visitedTop, topK>>
    /\ UNCHANGED <<segVars, tokVars, callGraph, violations, defs, arg, depth>>

\* findCycles(callee, [...path, name])
CyclesCall ==
    /\ pc = "cycles"
    /\ stack # <<>>
    /\ Top.i >= 1 /\ Top.i <= Len(Top.callees)
    /\ Len(stack) < MaxStack
    /\ stack' = Append(stack, Frame(Top.callees[Top.i], {}, Append(Top.path, Top.name)))
    /\ UNCHANGED <<segVars, tokVars, callGraph, violations, defs, op, arg, depth, cycles, pc, cyclesSoFar, visitedTop, topK>>

\* End of the for...of loop.
CyclesFinish ==
    /\ pc = "cycles"
    /\ stack # <<>>
    /\ Top.i > Len(Top.callees)
    /\ CyclesReturn
    /\ UNCHANGED <<segVars, tokVars, callGraph, violations, defs, op, arg, depth, cycles, pc, cyclesSoFar>>

StepDFS ==
    \/ DepthEnter
    \/ DepthCall
    \/ DepthFinish
    \/ CyclesTop
    \/ CyclesEnter
    \/ CyclesCall
    \/ CyclesFinish

NextDFS ==
    \/ \E n \in StepDefNames : TypeDefinition(n, MaxStepSize)
    \/ \E c \in StepCallNames : TypeCall(c, MaxStepSize)
    \/ \E n \in AskedNames(defs) : StartDepth(n)
    \/ StartCycles
    \/ StepDFS

\* A call that has started keeps running: JavaScript runs it to completion.
SpecDFS ==
    /\ InitDFS
    /\ [][NextDFS]_vars
    /\ WF_vars(StepDFS)

-----------------------------------------------------------------------------
(* The step-by-step run against the operators above.                       *)

Running == pc \in {"depth", "cycles"}

Finished == pc \in {"returned", "threw"}

\* Every name the run can meet.
NamesIn(d) == NamesOf(d) \cup UNION {Range(d[i].calledMapkeys) : i \in 1..Len(d)}

\* What the finished run left is what the operators compute.
DFS_Agrees ==
    Finished =>
        /\ op = "getMapkeyDepth" => depth = getMapkeyDepth(defs, arg)
        /\ op = "findCircularDependencies" => cycles = findCircularDependencies(defs)

\* Along the stack the set of names of the branch strictly grows: a frame
\* that has a callee running has put its own name, which was not there, into
\* the set (calculateDepth) or the path (findCycles) the callee starts with.
DFS_BranchGrows ==
    \A j \in 1..(Len(stack) - 1) :
        /\ pc = "depth" =>
              /\ stack[j].name \in stack[j + 1].visited
              /\ j > 1 => /\ stack[j].name \notin stack[j - 1].visited
                          /\ stack[j - 1].visited \subseteq stack[j].visited
              /\ stack[j + 1].visited \subseteq NamesIn(defs) \cup {arg}
        /\ pc = "cycles" =>
              /\ stack[j + 1].path = Append(stack[j].path, stack[j].name)
              /\ stack[j].name \notin Range(stack[j].path)
              /\ Range(stack[j + 1].path) \subseteq NamesIn(defs)

\* So the depth of the recursion is at most the number of distinct names,
\* plus one frame for the call that finds a name again.
DFS_StackBound ==
    /\ Len(stack) <= Cardinality(NamesIn(defs) \cup {arg}) + 1
    /\ Len(stack) < MaxStack

-----------------------------------------------------------------------------
(* Text of the Segmenter: a string is the sequence of its characters, a    *)
(* document is the sequence of its lines as text.split("\n") gives them.   *)

\* The characters \s matches and trim() removes, among those of the model.
WhiteSpace == {" ", "\t"}

StartsWith(s, p) == Len(s) >= Len(p) /\ SubSeq(s, 1, Len(p)) = p

\* String.prototype.endsWith
EndsWith(s, p) == Len(s) >= Len(p) /\ SubSeq(s, Len(s) - Len(p) + 1, Len(s)) = p

RECURSIVE TrimStart(_)
TrimStart(s) == IF s # <<>> /\ Head(s) \in WhiteSpace THEN TrimStart(Tail(s)) ELSE s

RECURSIVE TrimEnd(_)
TrimEnd(s) ==
    IF s # <<>> /\ s[Len(s)] \in WhiteSpace THEN TrimEnd(SubSeq(s, 1, Len(s) - 1)) ELSE s

\* String.prototype.trim
Trim(s) == TrimEnd(TrimStart(s))

\* String.prototype.indexOf: the first position (from 0) of sub in s, or -1.
indexOf(s, sub) ==
    LET at == {k \in 0..(Len(s) - Len(sub)) : SubSeq(s, k + 1, k + Len(sub)) = sub}
    IN  IF at = {} THEN -1 ELSE CHOOSE k \in at : \A m \in at : k <= m

\* Array.prototype.join(sep)
RECURSIVE JoinWith(_, _)
JoinWith(ls, sep) ==
    IF ls = <<>> THEN <<>>
    ELSE IF Len(ls) = 1 THEN ls[1]
    ELSE ls[1] \o sep \o JoinWith(Tail(ls), sep)

\* Array.prototype.join("\n")
Join(ls) == JoinWith(ls, <<"\n">>)

\* s.replace(regex, "") for a regex that is a literal text: the first
\* occurrence of sub is taken out.
RemoveFirst(s, sub) ==
    LET k == indexOf(s, sub)
    IN  IF k = -1 THEN s ELSE SubSeq(s, 1, k) \o SubSeq(s, k + Len(sub) + 1, Len(s))

\* The decimal digits of a natural number, as a template literal writes it.
RECURSIVE Digits(_)
Digits(n) ==
    LET d == <<"0", "1", "2", "3", "4", "5", "6", "7", "8", "9">>
    IN  IF n < 10 THEN <<d[n + 1]>> ELSE Digits(n \div 10) \o <<d[(n % 10) + 1]>>

Str_mapkey == <<"m", "a", "p", "k", "e", "y">>

Str_continued == Str_mapkey \o <<"(", "c", "o", "n", "t", "i", "n", "u", "e", "d", ")">>

\* The longest prefix of s made of characters that are neither white space
\* nor ";": what the group ([^\s;]+) takes.
RECURSIVE NameRun(_)
NameRun(s) ==
    IF s = <<>> \/ Head(s) \in WhiteSpace \/ Head(s) = ";" THEN <<>>
    ELSE <<Head(s)>> \o NameRun(Tail(s))

\* line.match(REGEX.DECLARATION) with DECLARATION = /^mapkey\s+([^\s;]+)/ :
\* whether it matches, and group 1.
DECLARATION(line) ==
    LET rest == SubSeq(line, Len(Str_mapkey) + 1, Len(line))
        name == NameRun(TrimStart(rest))
    IN  IF StartsWith(line, Str_mapkey) /\ rest # <<>> /\ Head(rest) \in WhiteSpace
           /\ name # <<>>
        THEN [matched |-> TRUE, name |-> name]
        ELSE [matched |-> FALSE, name |-> <<>>]

\* REGEX.MAPKEY_START.test(s) with MAPKEY_START = /^mapkey\s/
MAPKEY_START(s) ==
    /\ StartsWith(s, Str_mapkey)
    /\ Len(s) > Len(Str_mapkey)
    /\ s[Len(Str_mapkey) + 1] \in WhiteSpace

\* REGEX.CONTINUATION_LINE_START.test(s), /^mapkey\(continued\)\s/
CONTINUATION_LINE_START(s) ==
    /\ StartsWith(s, Str_continued)
    /\ Len(s) > Len(Str_continued)
    /\ s[Len(Str_continued) + 1] \in WhiteSpace

\* REGEX.CONTINUATION_LINE.test(s), /(?:^mapkey\(continued\)|@).*\\$/ : the
\* last character is a backslash, and before it the text starts with
\* "mapkey(continued)" or holds an "@".
CONTINUATION_LINE(s) ==
    /\ s # <<>>
    /\ s[Len(s)] = "\\"
    /\ \/ StartsWith(SubSeq(s, 1, Len(s) - 1), Str_continued)
       \/ \E k \in 1..(Len(s) - 1) : s[k] = "@"

\* REGEX.CONTINUATION_LINE_END.test(s), /[^;](\\$)/
CONTINUATION_LINE_END(s) == Len(s) >= 2 /\ s[Len(s)] = "\\" /\ s[Len(s) - 1] # ";"

\* REGEX.MACRO_END.test(s), /;/
MACRO_END(s) == indexOf(s, <<";">>) # -1

\* REGEX.MAPKEY_LABEL and REGEX.MAPKEY_NAME, /@MAPKEY_LABEL/ and /@MAPKEY_NAME/
Str_MAPKEY_LABEL == <<"@", "M", "A", "P", "K", "E", "Y", "_", "L", "A", "B", "E", "L">>

Str_MAPKEY_NAME == <<"@", "M", "A", "P", "K", "E", "Y", "_", "N", "A", "M", "E">>

\* s.replace(REGEX.CONTINUATION_LINE_START, "")
RemoveContinuationStart(s) ==
    IF CONTINUATION_LINE_START(s) THEN SubSeq(s, Len(Str_continued) + 2, Len(s)) ELSE s

\* s.replace(REGEX.CONTINUATION_LINE_END, "") with CONTINUATION_LINE_END =
\* /[^;](\\$)/ : a final backslash goes together with the character before
\* it, unless that character is ";".
RemoveContinuationEnd(s) ==
    IF Len(s) >= 2 /\ s[Len(s)] = "\\" /\ s[Len(s) - 1] # ";"
    THEN SubSeq(s, 1, Len(s) - 2)
    ELSE s

\* REGEX.CONTINUATION_COMMENT.test(s), /^\s*!.+;\\$/ : after any white
\* space a "!", at least one character, and ";\" at the very end.
CONTINUATION_COMMENT(s) ==
    LET t == TrimStart(s)
    IN  /\ Len(t) >= 4
        /\ Head(t) = "!"
        /\ EndsWith(t, <<";", "\\">>)

-----------------------------------------------------------------------------
(* The lines documents are typed from.                                     *)

Escape == <<";", "\\">>

\* "mapkey a @MAPKEY_LABELx;\" : a declaration that goes on
Line_DeclA == Str_mapkey \o <<" ", "a", " ">> \o Str_MAPKEY_LABEL \o <<"x">> \o Escape
\* "mapkey b;" : a declaration that ends on its line
Line_DeclB == Str_mapkey \o <<" ", "b", ";">>
\* "mapkey(continued) @MAPKEY_NAMEy;\" : a continuation line that goes on
Line_Cont == Str_continued \o <<" ">> \o Str_MAPKEY_NAME \o <<"y">> \o Escape
\* "mapkey(continued) z;" : the last continuation line of a record
Line_ContEnd == Str_continued \o <<" ", "z", ";">>
\* "!c;\" : a comment inside a record
Line_Comment == <<"!", "c">> \o Escape
\* "!c" : a comment outside a record
Line_CommentEnd == <<"!", "c">>
\* "" : a blank line
Line_Blank == <<>>
\* " mapkey b;" : an indented declaration
Line_Indented == <<" ">> \o Line_DeclB
\* "x;" : any other text
Line_Other == <<"x", ";">>

Lines ==
    {Line_DeclA, Line_DeclB, Line_Cont, Line_ContEnd, Line_Comment,
     Line_CommentEnd, Line_Blank, Line_Indented, Line_Other}

\* The document as one string, and the offset at which line k (from 0) starts.
TextOf(ls) == Join(ls)

OffsetOfLine(ls, k) == Len(Join(SubSeq(ls, 1, k))) + (IF k > 0 THEN 1 ELSE 0)

\* The offset at which line k (from 0) ends: lines.slice(0, k + 1).join("\n").length
EndOfLine(ls, k) == Len(Join(SubSeq(ls, 1, k + 1)))

\* The definitions of extractMapkeyBlocks the repository holds.
Impls == {"first", "second", "quickref"}

-----------------------------------------------------------------------------
(* extractMapkeyBlocks, line by line.                                      *)

\* The document gets one more line.
TypeLine(l) ==
    /\ segpc = "idle"
    /\ Len(lines) < MaxLines
    /\ lines' = Append(lines, l)
    /\ UNCHANGED <<lineIdx, currentOffset, blocks, cur, segpc, tokVars, graphVars, stepVars>>

\* A variant of Segment: the blocks of the call before are still there, as if
\* the array were kept outside the function.
SegmentKeepBlocks ==
    /\ segpc = "idle"
    /\ segpc' = "scan"
    /\ lineIdx' = 0
    /\ currentOffset' = 0
    /\ UNCHANGED <<lines, blocks, cur, tokVars, graphVars, stepVars>>

\* extractMapkeyBlocks(text) is called.
Segment ==
    /\ segpc = "idle"
    /\ segpc' = "scan"
    /\ lineIdx' = 0
    /\ currentOffset' = 0
    /\ blocks' = <<>>
    /\ UNCHANGED <<lines, cur, tokVars, graphVars, stepVars>>

\* Outer loop, a line that is no declaration: it is skipped.
SegSkip ==
    /\ segpc = "scan"
    /\ lineIdx < Len(lines)
    /\ LET line == lines[lineIdx + 1]
       IN  /\ ~DECLARATION(line).matched
           /\ currentOffset' = IF impl = "quickref" THEN currentOffset
                               ELSE currentOffset + Len(line) + 1
           /\ lineIdx' = lineIdx + 1
    /\ UNCHANGED <<lines, blocks, cur, segpc, tokVars, graphVars, stepVars>>

\* Outer loop, a declaration line: a block starts with it, and its
\* mapkey.name token is emitted.
SegOpen ==
    /\ segpc = "scan"
    /\ lineIdx < Len(lines)
    /\ LET line == lines[lineIdx + 1]
           declMatch == DECLARATION(line)
           mapkeyName == declMatch.name
           blockId == <<"m", "a", "p", "k", "e", "y", "_">> \o Digits(lineIdx)
                        \o <<"_">> \o mapkeyName
           nameStart == indexOf(line, mapkeyName)
           nameEnd == nameStart + Len(mapkeyName)
       IN  /\ declMatch.matched
           /\ cur' = IF impl = "quickref"
                     THEN [id |-> blockId,
                           name |-> mapkeyName,
                           start |-> OffsetOfLine(lines, lineIdx),
                           end |-> EndOfLine(lines, lineIdx),
                           collected |-> <<line>>,
                           tokens |-> <<>>]
                     ELSE [id |-> blockId,
                           name |-> mapkeyName,
                           start |-> currentOffset,
                           end |-> currentOffset + Len(line),
                           collected |-> <<line>>,
                           tokens |-> << [type |-> "mapkey.name", value |-> mapkeyName,
                                          start |-> currentOffset + nameStart,
                                          end |-> currentOffset + nameEnd,
                                          blockId |-> blockId] >>]
           /\ lineIdx' = lineIdx + 1
           /\ segpc' = "collect"
    /\ UNCHANGED <<lines, currentOffset, blocks, tokVars, graphVars, stepVars>>

\* What the inner loop does with a line, from its trimmed text: "break"
\* leaves the loop without the line, "push" takes the line and goes on,
\* "pushBreak" takes the line and leaves the loop.
Continuation(trimmed) ==
    IF trimmed = <<>> THEN "break"
    ELSE IF CONTINUATION_COMMENT(trimmed)
         THEN IF EndsWith(trimmed, Escape) THEN "push" ELSE "pushBreak"
    ELSE IF ~MAPKEY_START(trimmed) /\ ~CONTINUATION_LINE_START(trimmed) THEN "break"
    ELSE "push"

\* The inner loop of the first extractMapkeyBlocks of blockTokenizer.js: a
\* comment line that ends with ";\" is taken, and so is a line that matches
\* CONTINUATION_LINE.
ContinuationFirst(trimmed) ==
    IF trimmed = <<>> THEN "break"
    ELSE IF CONTINUATION_COMMENT(trimmed) THEN "push"
    ELSE IF ~CONTINUATION_LINE(trimmed) THEN "break"
    ELSE "push"

\* The inner loop of extractMapkeyBlocks of the quick reference: a comment
\* line or a "mapkey(continued)" line is taken, and the loop goes on only
\* after a line that ends with ";\".
ContinuationQuickRef(trimmed) ==
    IF trimmed = <<>> THEN "break"
    ELSE IF StartsWith(trimmed, <<"!">>)
         THEN IF EndsWith(trimmed, Escape) THEN "push" ELSE "pushBreak"
    ELSE IF ~StartsWith(trimmed, Str_continued) THEN "break"
    ELSE IF EndsWith(trimmed, Escape) THEN "push" ELSE "pushBreak"

\* The inner loop of the extractMapkeyBlocks that runs.
LineDecision(nextLine) ==
    CASE impl = "first" -> ContinuationFirst(Trim(nextLine))
      [] impl = "second" -> Continuation(Trim(nextLine))
      [] impl = "quickref" -> ContinuationQuickRef(Trim(nextLine))

\* Inner loop, a line that is taken into the block.
SegCollect ==
    /\ segpc = "collect"
    /\ lineIdx < Len(lines)
    /\ LET nextLine == lines[lineIdx + 1]
           what == LineDecision(nextLine)
       IN  /\ what \in {"push", "pushBreak"}
           /\ cur' = [cur EXCEPT !.collected = Append(@, nextLine),
                                 !.end = IF impl = "quickref"
                                         THEN EndOfLine(lines, lineIdx)
                                         ELSE @ + Len(nextLine) + 1]
           /\ lineIdx' = lineIdx + 1
           /\ segpc' = IF what = "push" THEN "collect" ELSE "close"
    /\ UNCHANGED <<lines, currentOffset, blocks, tokVars, graphVars, stepVars>>

\* Inner loop, its end: no line is left, or the line is not taken.
SegBreak ==
    /\ segpc = "collect"
    /\ \/ lineIdx >= Len(lines)
       \/ /\ lineIdx < Len(lines)
          /\ LineDecision(lines[lineIdx + 1]) = "break"
    /\ segpc' = "close"
    /\ UNCHANGED <<lines, lineIdx, currentOffset, blocks, cur, tokVars, graphVars, stepVars>>

\* addRegexToken, its loop from line k (from 1) of the block: the line
\* without the tag, the continuation prefix, what follows the first ";" and
\* a final backslash; the loop ends with the line that holds a ";".
RECURSIVE ValueLines(_, _, _)
ValueLines(ls, k, startRegex) ==
    IF k > Len(ls) THEN <<>>
    ELSE LET noTag == Trim(RemoveFirst(ls[k], startRegex))
             noPrefix == Trim(RemoveContinuationStart(noTag))
             hitEnd == MACRO_END(noPrefix)
             cut == IF hitEnd THEN SubSeq(noPrefix, 1, indexOf(noPrefix, <<";">>))
                    ELSE noPrefix
             line == Trim(RemoveContinuationEnd(cut))
         IN  <<line>> \o (IF hitEnd THEN <<>> ELSE ValueLines(ls, k + 1, startRegex))

\* addRegexToken: the token list with the token of the first line that
\* holds the tag, if there is one.
addRegexToken(ls, baseOffset, startRegex, type, tokens, blockId) ==
    LET found == {k \in 1..Len(ls) : indexOf(ls[k], startRegex) # -1}
    IN  IF found = {} THEN tokens
        ELSE LET startLineIndex == (CHOOSE k \in found : \A m \in found : k <= m) - 1
                 value == JoinWith(ValueLines(ls, startLineIndex + 1, startRegex), <<" ">>)
                 absoluteStart == baseOffset + Len(Join(SubSeq(ls, 1, startLineIndex)))
                                    + (IF startLineIndex > 0 THEN 1 ELSE 0)
             IN  Append(tokens, [type |-> type, value |-> value,
                                 start |-> absoluteStart,
                                 end |-> absoluteStart + Len(value),
                                 blockId |-> blockId])

\* flattenMultiLine of the first version: the lines from line k (from 1)
\* without the continuation prefix and without a final backslash, up to the
\* first line that has no final backslash.
RECURSIVE flattenMultiLine(_, _)
flattenMultiLine(ls, k) ==
    IF k > Len(ls) THEN <<>>
    ELSE LET noPrefix == Trim(RemoveContinuationStart(ls[k]))
             endsWithContinuation == CONTINUATION_LINE_END(noPrefix)
             line == IF endsWithContinuation THEN Trim(RemoveContinuationEnd(noPrefix))
                     ELSE noPrefix
         IN  <<line>> \o (IF endsWithContinuation THEN flattenMultiLine(ls, k + 1) ELSE <<>>)

\* The first version's token of a tag: addSimpleToken gives it a type, a
\* value and a block, and no offsets.
addFlattenedToken(ls, startRegex, type, toks, blockId) ==
    LET found == {k \in 1..Len(ls) : indexOf(ls[k], startRegex) # -1}
    IN  IF found = {} THEN toks
        ELSE LET lineIndex == CHOOSE k \in found : \A m \in found : k <= m
             IN  Append(toks, [type |-> type,
                               value |-> JoinWith(flattenMultiLine(ls, lineIndex), <<" ">>),
                               blockId |-> blockId])

\* The block the first version pushes.
PushedBlockFirst ==
    LET withLabel == addFlattenedToken(cur.collected, Str_MAPKEY_LABEL, "mapkey.label",
                                       cur.tokens, cur.id)
        withName == addFlattenedToken(cur.collected, Str_MAPKEY_NAME, "mapkey.description",
                                      withLabel, cur.id)
    IN  [id |-> cur.id, name |-> cur.name, start |-> cur.start, end |-> cur.end,
         content |-> Join(cur.collected), tokens |-> withName]

\* The block the quick reference pushes: its tokens come in phase 2.
PushedBlockQuickRef ==
    [id |-> cur.id, name |-> cur.name, start |-> cur.start, end |-> cur.end,
     content |-> Join(cur.collected), tokens |-> <<>>]

\* The block the second version pushes: the label and the description token
\* are added to the tokens, and the collected lines are joined.
PushedBlockSecond ==
    LET withLabel == addRegexToken(cur.collected, currentOffset, Str_MAPKEY_LABEL,
                                   "mapkey.label", cur.tokens, cur.id)
        withName == addRegexToken(cur.collected, currentOffset, Str_MAPKEY_NAME,
                                  "mapkey.description", withLabel, cur.id)
    IN  [id |-> cur.id, name |-> cur.name, start |-> cur.start, end |-> cur.end,
         content |-> Join(cur.collected), tokens |-> withName]

\* The block the extractMapkeyBlocks that runs pushes.
PushedBlock ==
    CASE impl = "first" -> PushedBlockFirst
      [] impl = "second" -> PushedBlockSecond
      [] impl = "quickref" -> PushedBlockQuickRef

\* A variant of SegClose that leaves currentOffset where the block started.
SegCloseKeepOffset ==
    /\ segpc = "close"
    /\ blocks' = Append(blocks, PushedBlock)
    /\ cur' = NoBlock
    /\ segpc' = "scan"
    /\ UNCHANGED <<lines, lineIdx, currentOffset, tokVars, graphVars, stepVars>>

\* The tags are looked for, the block is pushed, and currentOffset is set to the offset of the line
\* the outer loop reads next.
SegClose ==
    /\ segpc = "close"
    /\ blocks' = Append(blocks, PushedBlock)
    /\ cur' = NoBlock
    /\ currentOffset' = IF impl = "quickref" THEN currentOffset
                        ELSE OffsetOfLine(lines, lineIdx)
    /\ segpc' = "scan"
    /\ UNCHANGED <<lines, lineIdx, tokVars, graphVars, stepVars>>

\* The outer loop is over: return blocks.
SegReturn ==
    /\ segpc = "scan"
    /\ lineIdx >= Len(lines)
    /\ segpc' = "returned"
    /\ UNCHANGED <<lines, lineIdx, currentOffset, blocks, cur, tokVars, graphVars, stepVars>>

InitSeg ==
    /\ lines \in {<<l>> : l \in Lines}
    /\ lineIdx = 0
    /\ currentOffset = 0
    /\ blocks = <<>>
    /\ cur = NoBlock
    /\ segpc = "idle"
    /\ impl \in Impls
    /\ tokenized = <<>>
    /\ parsed = NoResult
    /\ lookup = NoLookup
    /\ scan = NoScan
    /\ foldingRanges = <<>>
    /\ earlier = <<>>
    /\ defs = <<>>
    /\ GraphIdle

NextSeg ==
    \/ \E l \in Lines : TypeLine(l)
    \/ Segment
    \/ SegSkip
    \/ SegOpen
    \/ SegCollect
    \/ SegBreak
    \/ SegClose
    \/ SegReturn

SpecSeg == InitSeg /\ [][NextSeg]_vars

\* What extractMapkeyBlocks leaves agrees with the text: a block's content
\* is the text of its range.
Seg_ContentIsRange ==
    \A k \in 1..Len(blocks) :
        blocks[k].content = SubSeq(TextOf(lines), blocks[k].start + 1, blocks[k].end)

-----------------------------------------------------------------------------
(* tokenizeMapkeyContent of mapkeyStructure-quick-ref.md: the tokens of    *)
(* one block, found by regular expressions over the block's content.       *)

\* \s over a text of several lines
WhiteSpaceNL == WhiteSpace \cup {"\n"}

\* String.prototype.indexOf(sub, from): the first position (from 0) at or
\* after from where sub starts, or -1.
indexOfFrom(s, sub, from) ==
    LET at == {k \in from..(Len(s) - Len(sub)) :
                  s[k + 1] = sub[1] /\ SubSeq(s, k + 1, k + Len(sub)) = sub}
    IN  IF at = {} THEN -1 ELSE CHOOSE k \in at : \A m \in at : k <= m

\* The positions (from 0) of the matches of a global regex that is a literal
\* text, as a loop of regex.exec(s) finds them from position from on.
RECURSIVE execAll(_, _, _)
execAll(s, sub, from) ==
    LET k == indexOfFrom(s, sub, from)
    IN  IF k = -1 THEN <<>> ELSE <<k>> \o execAll(s, sub, k + Len(sub))

\* The positions (from 0) at which a line of s starts: what ^ matches with
\* the m flag.
LineStarts(s) == {0} \cup {k \in 1..Len(s) : s[k] = "\n"}

\* The end (exclusive, from 0) of the line that holds position k: what $
\* matches with the m flag, and where a "." stops.
LineEndFrom(s, k) ==
    LET nl == indexOfFrom(s, <<"\n">>, k)
    IN  IF nl = -1 THEN Len(s) ELSE nl

\* The members of a set of numbers in increasing order.
RECURSIVE Ascending(_)
Ascending(S) ==
    IF S = {} THEN <<>>
    ELSE LET least == CHOOSE k \in S : \A m \in S : k <= m
         IN  <<least>> \o Ascending(S \ {least})

\* A token of a block, and a token of the document (which has no blockId).
Token(type, value, start, end, blockId) ==
    [type |-> type, value |-> value, start |-> start, end |-> end, blockId |-> blockId]

DocumentToken(type, value, start, end) ==
    [type |-> type, value |-> value, start |-> start, end |-> end]

\* s.replace(/\s*\\+\s*$/g, ''): a final run of backslashes goes, with the
\* white space around it.
StripEscape(s) ==
    LET t == TrimEnd(s)
        RECURSIVE DropBackslashes(_)
        DropBackslashes(u) ==
            IF u # <<>> /\ u[Len(u)] = "\\" THEN DropBackslashes(SubSeq(u, 1, Len(u) - 1))
            ELSE u
    IN  IF t # <<>> /\ t[Len(t)] = "\\" THEN TrimEnd(DropBackslashes(t)) ELSE s

\* nextLine.replace(/^mapkey\(continued\)\s*/, '')
StripContinued(s) ==
    IF StartsWith(s, Str_continued)
    THEN TrimStart(SubSeq(s, Len(Str_continued) + 1, Len(s)))
    ELSE s

\* The loop of extractMetadataContent over the lines after the tag's line:
\* the collected content and currentPos when the loop is left.
RECURSIVE collectMetadata(_, _, _)
collectMetadata(content, currentPos, collectedContent) ==
    IF currentPos >= Len(content)
    THEN [value |-> collectedContent, pos |-> currentPos]
    ELSE LET nextLineStart == currentPos + 1
             nextLineEnd == LineEndFrom(content, nextLineStart)
             nextLine == SubSeq(content, nextLineStart + 1, nextLineEnd)
             cleanLine == StripContinued(nextLine)
             nextSemiPos == indexOf(cleanLine, <<";">>)
             partial == Trim(SubSeq(cleanLine, 1, nextSemiPos))
             cleaned == Trim(StripEscape(cleanLine))
             AppendPart(part) ==
                 IF part # <<>> THEN collectedContent \o <<" ">> \o part ELSE collectedContent
         IN  IF nextSemiPos # -1
             THEN [value |-> AppendPart(partial), pos |-> currentPos]
             ELSE IF ~EndsWith(Trim(cleanLine), <<"\\">>)
             THEN [value |-> collectedContent, pos |-> currentPos]
             ELSE collectMetadata(content, nextLineEnd, AppendPart(cleaned))

\* extractMetadataContent: the content token of the tag that ends at tagEnd,
\* as a list of one token, or the empty list where the function returns null.
extractMetadataContent(content, tagEnd, blockStart, blockId) ==
    LET lineEnd == LineEndFrom(content, tagEnd)
        firstLine == SubSeq(content, tagEnd + 1, lineEnd)
        semiPos == indexOf(firstLine, <<";">>)
        value == Trim(SubSeq(firstLine, 1, semiPos))
        multi == collectMetadata(content, lineEnd, Trim(StripEscape(firstLine)))
    IN  IF semiPos # -1
        THEN IF value = <<>> THEN <<>>
             ELSE << Token("mapkey.description", value,
                           blockStart + tagEnd, blockStart + tagEnd + semiPos, blockId) >>
        ELSE IF multi.value = <<>> THEN <<>>
             ELSE << Token("mapkey.description", multi.value,
                           blockStart + tagEnd, blockStart + multi.pos, blockId) >>

\* labelToken.type = ...: the same token with another type.
Retyped(found, type) == [k \in 1..Len(found) |-> [found[k] EXCEPT !.type = type]]

\* The lists of a list of lists, one after the other: tokens.push(...list)
RECURSIVE Flatten(_)
Flatten(lists) == IF lists = <<>> THEN <<>> ELSE Head(lists) \o Flatten(Tail(lists))

\* The tokens of the occurrences of a tag, which start at the positions at:
\* for each the tag's own token, then its content token if there is one.
tagTokens(block, at, tag, tagType, contentType) ==
    Flatten([k \in 1..Len(at) |->
        << Token(tagType, tag, block.start + at[k], block.start + at[k] + Len(tag), block.id) >>
        \o Retyped(extractMetadataContent(block.content, at[k] + Len(tag), block.start, block.id),
                   contentType)])

Str_SYSTEM == <<"@", "S", "Y", "S", "T", "E", "M">>

\* 1. the declaration: the keyword and the name
declarationTokens(block) ==
    LET content == block.content
        declMatch == DECLARATION(SubSeq(content, 1, LineEndFrom(content, 0)))
        keywordEnd == Len(Str_mapkey)
        nameStart == indexOfFrom(content, declMatch.name, keywordEnd)
        nameEnd == nameStart + Len(declMatch.name)
    IN  IF declMatch.matched
        THEN << Token("mapkey.keyword", Str_mapkey, block.start, block.start + keywordEnd, block.id),
                Token("mapkey.name", declMatch.name, block.start + nameStart,
                      block.start + nameEnd, block.id) >>
        ELSE <<>>

\* 2. and 3. the tags: @MAPKEY_NAME, @MAPKEY_LABEL, then @MANUAL_PAUSE and @SYSTEM
nameTagTokens(block) ==
    tagTokens(block, execAll(block.content, Str_MAPKEY_NAME, 0), Str_MAPKEY_NAME,
              "mapkey.tag.name", "mapkey.description")

labelTagTokens(block) ==
    tagTokens(block, execAll(block.content, Str_MAPKEY_LABEL, 0), Str_MAPKEY_LABEL,
              "mapkey.tag.label", "mapkey.label")

systemTokens(block) ==
    LET Str_MANUAL_PAUSE == <<"@", "M", "A", "N", "U", "A", "L", "_", "P", "A", "U", "S", "E">>
        pauses == Range(execAll(block.content, Str_MANUAL_PAUSE, 0))
        systems == Range(execAll(block.content, Str_SYSTEM, 0))
        at == Ascending(pauses \cup systems)
    IN  Flatten([k \in 1..Len(at) |->
            tagTokens(block, <<at[k]>>,
                      IF at[k] \in pauses THEN Str_MANUAL_PAUSE ELSE Str_SYSTEM,
                      "mapkey.system.command", "mapkey.system.instruction")])

\* 4. the nested calls, /%([^;]+);/g from position from on: a "%", at least
\* one character that is not ";", and the first ";" after them.
RECURSIVE nestedTokens(_, _)
nestedTokens(block, from) ==
    LET content == block.content
        found == {k \in from..(Len(content) - 3) :
                     /\ content[k + 1] = "%"
                     /\ content[k + 2] # ";"
                     /\ indexOfFrom(content, <<";">>, k + 2) # -1}
    IN  IF found = {} THEN <<>>
        ELSE LET fullStart == CHOOSE k \in found : \A m \in found : k <= m
                 fullEnd == indexOfFrom(content, <<";">>, fullStart + 2) + 1
             IN  << Token("mapkey.nested.marker", <<"%">>,
                          block.start + fullStart, block.start + fullStart + 1, block.id),
                    Token("mapkey.nested.name", SubSeq(content, fullStart + 2, fullEnd - 1),
                          block.start + fullStart + 1, block.start + fullEnd - 1, block.id),
                    Token("mapkey.nested.terminator", <<";">>,
                          block.start + fullEnd - 1, block.start + fullEnd, block.id) >>
                 \o nestedTokens(block, fullEnd)

\* The first position (from 0) at or after k that holds no white space: where
\* \s* stops.
RECURSIVE SkipSpace(_, _)
SkipSpace(s, k) ==
    IF k < Len(s) /\ s[k + 1] \in WhiteSpaceNL THEN SkipSpace(s, k + 1) ELSE k

\* The first position (from 0) at or after k that holds a character of stop,
\* or the length of s: where a run of [^stop] ends.
RECURSIVE RunEnd(_, _, _)
RunEnd(s, k, stop) ==
    IF k < Len(s) /\ s[k + 1] \notin stop THEN RunEnd(s, k + 1, stop) ELSE k

\* The backtick character, one element of a text as every character is.
Backtick == "backtick"

Str_Command == <<"C", "o", "m", "m", "a", "n", "d">>

\* The backtick strings of the arguments, from position from on: a backtick,
\* characters that are no backtick, and a backtick.
RECURSIVE backtickTokens(_, _, _, _, _)
backtickTokens(argsString, from, baseOffset, blockId, verb) ==
    LET open == indexOfFrom(argsString, <<Backtick>>, from)
        close == IF open = -1 THEN -1 ELSE indexOfFrom(argsString, <<Backtick>>, open + 1)
        ProCmdCommand == <<"P", "r", "o", "C", "m", "d">> \o Str_Command
        Select == <<"S", "e", "l", "e", "c", "t">>
        Activate == <<"A", "c", "t", "i", "v", "a", "t", "e">>
        argType == IF verb \in {Str_Command, ProCmdCommand} THEN "mapkey.action.arg.command"
                   ELSE IF verb \in {Select, Activate} THEN "mapkey.action.arg.ui_element"
                   ELSE "mapkey.action.arg.string"
    IN  IF close = -1 THEN <<>>
        ELSE << Token(argType, SubSeq(argsString, open + 2, close),
                      baseOffset + open + 1, baseOffset + close, blockId) >>
             \o backtickTokens(argsString, close + 1, baseOffset, blockId, verb)

\* The integers of the arguments, /\s(\d+)(?=\s|$)/g : a white space, a run
\* of digits, and after the run white space or the end.
integerTokens(argsString, baseOffset, blockId) ==
    LET Digit == {"0", "1", "2", "3", "4", "5", "6", "7", "8", "9"}
        ends(k) == RunEnd(argsString, k + 1, {c \in Range(argsString) : c \notin Digit})
        at == Ascending({k \in 0..(Len(argsString) - 2) :
                            /\ argsString[k + 1] \in WhiteSpaceNL
                            /\ argsString[k + 2] \in Digit
                            /\ \/ ends(k) = Len(argsString)
                               \/ argsString[ends(k) + 1] \in WhiteSpaceNL})
    IN  [k \in 1..Len(at) |->
            Token("mapkey.action.arg.integer", SubSeq(argsString, at[k] + 2, ends(at[k])),
                  baseOffset + at[k] + 1, baseOffset + ends(at[k]), blockId)]

tokenizeActionArguments(argsString, baseOffset, blockId, verb) ==
    backtickTokens(argsString, 0, baseOffset, blockId, verb)
    \o integerTokens(argsString, baseOffset, blockId)

\* The regex of an action tried at position k (from 0): a "~", white space,
\* a verb (a run without white space, ";" and backtick), and the first ";"
\* that follows the verb on its line.
ActionAt(content, k) ==
    LET verbStart == SkipSpace(content, k + 1)
        verbEnd == RunEnd(content, verbStart, WhiteSpaceNL \cup {";", Backtick})
        semi == indexOfFrom(content, <<";">>, verbEnd)
    IN  [matched |-> /\ content[k + 1] = "~"
                     /\ verbEnd > verbStart
                     /\ semi # -1
                     /\ semi < LineEndFrom(content, verbEnd) + 1,
         verbStart |-> verbStart, verbEnd |-> verbEnd, semi |-> semi]

\* 5. the actions, from position from on
RECURSIVE actionTokens(_, _)
actionTokens(block, from) ==
    LET content == block.content
        found == {k \in from..(Len(content) - 1) : ActionAt(content, k).matched}
    IN  IF found = {} THEN <<>>
        ELSE LET actionStart == CHOOSE k \in found : \A m \in found : k <= m
                 match == ActionAt(content, actionStart)
                 actionEnd == match.semi + 1
                 verb == SubSeq(content, match.verbStart + 1, match.verbEnd)
                 argsString == SubSeq(content, match.verbEnd + 1, match.semi)
                 verbStart == indexOfFrom(content, verb, actionStart + 1)
             IN  << Token("mapkey.action.marker", <<"~">>,
                          block.start + actionStart, block.start + actionStart + 1, block.id),
                    Token("mapkey.action.verb", verb,
                          block.start + verbStart, block.start + verbStart + Len(verb), block.id) >>
                 \o tokenizeActionArguments(argsString, block.start + verbStart + Len(verb),
                                            block.id, verb)
                 \o << Token("mapkey.action.terminator", <<";">>,
                             block.start + actionEnd - 1, block.start + actionEnd, block.id) >>
                 \o actionTokens(block, actionEnd)

\* 6. the comment lines of the block, /^!.*$/gm
commentTokens(block) ==
    LET content == block.content
        at == Ascending({k \in LineStarts(content) : k < Len(content) /\ content[k + 1] = "!"})
    IN  [k \in 1..Len(at) |->
            Token("comment.line", SubSeq(content, at[k] + 1, LineEndFrom(content, at[k])),
                  block.start + at[k], block.start + LineEndFrom(content, at[k]), block.id)]

\* 7. the continuation markers, /^mapkey\(continued\)/gm
continuationTokens(block) ==
    LET content == block.content
        at == Ascending({k \in LineStarts(content) :
                            StartsWith(SubSeq(content, k + 1, Len(content)), Str_continued)})
    IN  [k \in 1..Len(at) |->
            Token("mapkey.continuation", Str_continued,
                  block.start + at[k], block.start + at[k] + Len(Str_continued), block.id)]

\* A variant of tokenizeMapkeyContent: the continuation markers are pushed
\* first.
tokenizeMapkeyContentMarkersFirst(block) ==
    continuationTokens(block)
    \o declarationTokens(block)
    \o nameTagTokens(block)
    \o labelTagTokens(block)
    \o systemTokens(block)
    \o nestedTokens(block, 0)
    \o actionTokens(block, 0)
    \o commentTokens(block)

\* tokenizeMapkeyContent(block): the tokens in the order they are pushed.
tokenizeMapkeyContent(block) ==
    declarationTokens(block)
    \o nameTagTokens(block)
    \o labelTagTokens(block)
    \o systemTokens(block)
    \o nestedTokens(block, 0)
    \o actionTokens(block, 0)
    \o commentTokens(block)
    \o continuationTokens(block)

\* The region markers, /^\s*!region/gm and /^\s*!endregion/gm, from position
\* from on: a line start, white space (which may run over line ends), and
\* the marker.
RECURSIVE regionTokens(_, _, _, _)
regionTokens(text, marker, type, from) ==
    LET found == {k \in LineStarts(text) :
                     /\ k >= from
                     /\ StartsWith(SubSeq(text, SkipSpace(text, k) + 1, Len(text)), marker)}
    IN  IF found = {} THEN <<>>
        ELSE LET index == CHOOSE k \in found : \A m \in found : k <= m
                 end == SkipSpace(text, index) + Len(marker)
             IN  << DocumentToken(type, SubSeq(text, index + 1, end), index, end) >>
                 \o regionTokens(text, marker, type, end)

\* The comment lines of the text that lie in no block.
standaloneCommentTokens(text, blockRanges) ==
    LET isInsideBlock(commentStart, commentEnd) ==
            \E r \in 1..Len(blockRanges) :
                commentStart >= blockRanges[r].start /\ commentEnd <= blockRanges[r].end
        at == Ascending({k \in LineStarts(text) :
                            /\ k < Len(text)
                            /\ text[k + 1] = "!"
                            /\ ~isInsideBlock(k, LineEndFrom(text, k))})
    IN  [k \in 1..Len(at) |->
            DocumentToken("comment.standalone", SubSeq(text, at[k] + 1, LineEndFrom(text, at[k])),
                          at[k], LineEndFrom(text, at[k]))]

\* tokenizeDocumentLevel(text), given the blocks extractMapkeyBlocks(text)
\* returns to it.
tokenizeDocumentLevel(text, blockRanges) ==
    LET Str_region == <<"r", "e", "g", "i", "o", "n">>
    IN  regionTokens(text, <<"!">> \o Str_region, "region.start", 0)
        \o regionTokens(text, <<"!", "e", "n", "d">> \o Str_region, "region.end", 0)
        \o standaloneCommentTokens(text, blockRanges)

\* Array.prototype.sort((a, b) => a.start - b.start): the sort is stable, a
\* token goes behind the tokens that start where it starts.
\* A variant of SortByStart: the tokens stay as they were pushed.
SortByStartSkipped(list) == list

SortByStart(list) ==
    LET RECURSIVE InsertByStart(_, _)
        InsertByStart(sorted, token) ==
            IF sorted = <<>> THEN <<token>>
            ELSE IF sorted[Len(sorted)].start <= token.start THEN Append(sorted, token)
            ELSE Append(InsertByStart(SubSeq(sorted, 1, Len(sorted) - 1), token),
                        sorted[Len(sorted)])
        RECURSIVE SortFrom(_, _)
        SortFrom(sorted, rest) ==
            IF rest = <<>> THEN sorted
            ELSE SortFrom(InsertByStart(sorted, Head(rest)), Tail(rest))
    IN  SortFrom(<<>>, list)

-----------------------------------------------------------------------------
(* tokenize(text) and parseMapkeys(text), over the lines of a typed text.  *)
(* The pipeline of tokenizer.js runs the extractMapkeyBlocks that          *)
(* blockTokenizer.js ends with; the pipeline of the quick reference runs   *)
(* its own.                                                                *)

\* A label that starts on a continuation line and goes on after the escape.
Line_LabelOpen == Str_continued \o <<" ">> \o Str_MAPKEY_LABEL \o <<"p", "\\">>

\* A name tag with nothing before the terminator.
Line_NameEmpty == Str_continued \o <<" ">> \o Str_MAPKEY_NAME \o Escape

\* Two name tags and one terminator.
Line_TwoNames ==
    Str_continued \o <<" ">> \o Str_MAPKEY_NAME \o <<"m", " ">> \o Str_MAPKEY_NAME \o <<"n">> \o Escape

\* A nested call.
Line_Nested == Str_continued \o <<" ", "%", "b">> \o Escape

\* A system instruction.
Line_System == Str_continued \o <<" ">> \o Str_SYSTEM \o <<"s">> \o Escape

\* An action with a backtick string and an integer.
Line_Action ==
    Str_continued \o <<" ", "~", " ">> \o Str_Command
        \o <<" ", Backtick, "c", Backtick, " ", "1">> \o Escape

TokLines ==
    {Line_DeclA, Line_DeclB, Line_Cont, Line_ContEnd, Line_LabelOpen, Line_NameEmpty,
     Line_TwoNames, Line_Nested, Line_System, Line_Action, Line_Comment, Line_CommentEnd}

\* One more line is typed.
TypeTokLine(l) ==
    /\ segpc = "idle"
    /\ Len(lines) < MaxTokLines
    /\ lines' = Append(lines, l)
    /\ UNCHANGED <<lineIdx, currentOffset, blocks, cur, segpc, tokVars, graphVars, stepVars>>

\* A variant of WithContentTokens: the content of a block is released once it
\* is tokenized.
WithContentTokensOnly(bs) ==
    [b \in 1..Len(bs) |-> [bs[b] EXCEPT !.tokens = tokenizeMapkeyContent(bs[b]),
                                        !.content = <<>>]]

\* The blocks with the tokens of tokenizeMapkeyContent: block.tokens = ...
WithContentTokens(bs) == [b \in 1..Len(bs) |-> [bs[b] EXCEPT !.tokens = tokenizeMapkeyContent(bs[b])]]

\* tokenize(text), after extractMapkeyBlocks(text) has returned the blocks:
\* tokenizer.js collects the tokens the blocks carry; the quick reference
\* tokenizes each block and the document.  Both sort by start.
Tokenize ==
    /\ segpc = "returned"
    /\ blocks' = IF impl = "quickref" THEN WithContentTokens(blocks) ELSE blocks
    /\ LET TokensOf(bs) == Flatten([b \in 1..Len(bs) |-> bs[b].tokens])
           blockRanges == [b \in 1..Len(blocks) |->
                              [start |-> blocks[b].start, end |-> blocks[b].end]]
       IN  tokenized' = SortByStart(
               IF impl = "quickref"
               THEN TokensOf(WithContentTokens(blocks))
                    \o tokenizeDocumentLevel(TextOf(lines), blockRanges)
               ELSE TokensOf(blocks))
    /\ segpc' = "tokenized"
    /\ UNCHANGED <<lines, lineIdx, currentOffset, cur, impl, parsed, earlier, lookup, foldingRanges, scan, graphVars, stepVars>>

\* What is undefined in JavaScript: no text.
Undefined == <<"undefined">>

\* tokens.find(t => t.type === type)?.value
FindValue(tokens, type) ==
    LET found == {k \in 1..Len(tokens) : tokens[k].type = type}
    IN  IF found = {} THEN Undefined
        ELSE tokens[CHOOSE k \in found : \A m \in found : k <= m].value

\* tokens.filter(t => t.type === type).map(t => t.value)
RECURSIVE FilterValues(_, _)
FilterValues(tokens, type) ==
    IF tokens = <<>> THEN <<>>
    ELSE (IF Head(tokens).type = type THEN <<Head(tokens).value>> ELSE <<>>)
         \o FilterValues(Tail(tokens), type)

\* A variant of buildMapkeyDefinition: the last token of a type is taken.
FindValueLast(tokens, type) ==
    LET found == {k \in 1..Len(tokens) : tokens[k].type = type}
    IN  IF found = {} THEN Undefined
        ELSE tokens[CHOOSE k \in found : \A m \in found : k >= m].value

buildMapkeyDefinitionLast(block) ==
    [name |-> block.name,
     description |-> FindValueLast(block.tokens, "mapkey.description"),
     label |-> FindValueLast(block.tokens, "mapkey.label"),
     system |-> FindValueLast(block.tokens, "mapkey.system.instruction"),
     range |-> [start |-> block.start, end |-> block.end],
     calledMapkeys |-> FilterValues(block.tokens, "mapkey.nested.name")]

buildMapkeyDefinition(block) ==
    [name |-> block.name,
     description |-> FindValue(block.tokens, "mapkey.description"),
     label |-> FindValue(block.tokens, "mapkey.label"),
     system |-> FindValue(block.tokens, "mapkey.system.instruction"),
     range |-> [start |-> block.start, end |-> block.end],
     calledMapkeys |-> FilterValues(block.tokens, "mapkey.nested.name")]

\* parseMapkeys(text), after extractMapkeyBlocks(text) has returned the
\* blocks to getMapkeyBlocks: the quick reference tokenizes each block;
\* tokenizer.js calls tokenizeMapkeyContent, which it does not define, for
\* the first block.
ParseMapkeys ==
    /\ segpc = "returned"
    /\ blocks' = IF impl = "quickref" THEN WithContentTokens(blocks) ELSE blocks
    /\ parsed' = IF impl = "quickref"
                 THEN Returned([b \in 1..Len(blocks) |->
                                   buildMapkeyDefinition(WithContentTokens(blocks)[b])])
                 ELSE IF blocks = <<>> THEN Returned(<<>>)
                 ELSE Thrown("ReferenceError")
    /\ segpc' = "parsed"
    /\ UNCHANGED <<lines, lineIdx, currentOffset, cur, impl, tokenized, earlier, lookup, foldingRanges, scan, graphVars, stepVars>>

\* list.find(x => inside(x)) || null
FindOrNull(list, inside(_)) ==
    LET found == {k \in 1..Len(list) : inside(list[k])}
    IN  IF found = {} THEN Null ELSE <<list[CHOOSE k \in found : \A m \in found : k <= m]>>

\* The positions a caller asks about: before the text, its first position, a
\* position in the first line, the length of the text and one past it.
LookupPositions == {-1, 0, 7, Len(TextOf(lines)), Len(TextOf(lines)) + 1}

\* A variant of getTokenAtPosition: a position outside the text is refused.
GetTokenAtPositionChecked(position) ==
    /\ segpc = "tokenized"
    /\ lookup' = [fn |-> "getTokenAtPosition", position |-> position,
                  result |-> IF position < 0 \/ position > Len(TextOf(lines))
                             THEN Thrown("RangeError")
                             ELSE Returned(FindOrNull(tokenized,
                                      LAMBDA t : position >= t.start /\ position < t.end))]
    /\ segpc' = "looked"
    /\ UNCHANGED <<lines, lineIdx, currentOffset, blocks, cur, impl, tokenized, parsed, earlier,
                   scan, foldingRanges, graphVars, stepVars>>

\* getTokenAtPosition(text, position), after tokenize(text) has returned.
GetTokenAtPosition(position) ==
    /\ segpc = "tokenized"
    /\ lookup' = [fn |-> "getTokenAtPosition", position |-> position,
                  result |-> Returned(FindOrNull(tokenized,
                                 LAMBDA t : position >= t.start /\ position < t.end))]
    /\ segpc' = "looked"
    /\ UNCHANGED <<lines, lineIdx, currentOffset, blocks, cur, impl, tokenized, parsed, earlier,
                   scan, foldingRanges, graphVars, stepVars>>

\* getBlockAtPosition(text, position), after extractMapkeyBlocks(text) has
\* returned the blocks to getMapkeyBlocks.
GetBlockAtPosition(position) ==
    /\ segpc = "returned"
    /\ blocks' = IF impl = "quickref" THEN WithContentTokens(blocks) ELSE blocks
    /\ lookup' = [fn |-> "getBlockAtPosition", position |-> position,
                  result |-> IF impl # "quickref" /\ blocks # <<>>
                             THEN Thrown("ReferenceError")
                             ELSE Returned(FindOrNull(WithContentTokens(blocks),
                                      LAMBDA b : position >= b.start /\ position <= b.end))]
    /\ segpc' = "looked"
    /\ UNCHANGED <<lines, lineIdx, currentOffset, cur, impl, tokenized, parsed, earlier,
                   scan, foldingRanges, graphVars, stepVars>>

\* getMapkeyAtPosition(text, position), after parseMapkeys(text) has returned
\* or thrown.
GetMapkeyAtPosition(position) ==
    /\ segpc = "parsed"
    /\ lookup' = [fn |-> "getMapkeyAtPosition", position |-> position,
                  result |-> IF parsed.threw THEN parsed
                             ELSE Returned(FindOrNull(parsed.value,
                                      LAMBDA mk : position >= mk.range.start
                                                  /\ position <= mk.range.end))]
    /\ segpc' = "looked"
    /\ UNCHANGED <<lines, lineIdx, currentOffset, blocks, cur, impl, tokenized, parsed, earlier,
                   scan, foldingRanges, graphVars, stepVars>>

InitTok ==
    /\ lines \in {<<l>> : l \in TokLines}
    /\ lineIdx = 0
    /\ currentOffset = 0
    /\ blocks = <<>>
    /\ cur = NoBlock
    /\ segpc = "idle"
    /\ impl \in {"second", "quickref"}
    /\ tokenized = <<>>
    /\ parsed = NoResult
    /\ lookup = NoLookup
    /\ scan = NoScan
    /\ foldingRanges = <<>>
    /\ earlier = <<>>
    /\ defs = <<>>
    /\ GraphIdle

NextTok ==
    \/ \E l \in TokLines : TypeTokLine(l)
    \/ Segment
    \/ SegSkip
    \/ SegOpen
    \/ SegCollect
    \/ SegBreak
    \/ SegClose
    \/ SegReturn
    \/ Tokenize
    \/ ParseMapkeys
    \/ \E position \in LookupPositions : GetTokenAtPosition(position)
    \/ \E position \in LookupPositions : GetBlockAtPosition(position)
    \/ \E position \in LookupPositions : GetMapkeyAtPosition(position)

SpecTok == InitTok /\ [][NextTok]_vars

-----------------------------------------------------------------------------
(* tokenize(text) called again and again while the text is edited: what a  *)
(* call leaves behind (the blocks, the offsets, the tokens) stays in the   *)
(* state, and the next call starts from it.                                *)

AgainLines == {Line_DeclA, Line_Cont, Line_ContEnd, Line_CommentEnd}

\* One more line is typed.
TypeAgainLine(l) ==
    /\ segpc = "idle"
    /\ Len(lines) < MaxAgainLines
    /\ lines' = Append(lines, l)
    /\ UNCHANGED <<lineIdx, currentOffset, blocks, cur, segpc, tokVars, graphVars, stepVars>>

\* The last line is deleted.
DeleteLine ==
    /\ segpc = "idle"
    /\ Len(lines) > 1
    /\ lines' = SubSeq(lines, 1, Len(lines) - 1)
    /\ UNCHANGED <<lineIdx, currentOffset, blocks, cur, segpc, tokVars, graphVars, stepVars>>

\* tokenize has returned to its caller, who keeps the result and may edit the
\* text and call again; nothing of the finished call is cleared.
NextCall ==
    /\ segpc = "tokenized"
    /\ Len(earlier) + 1 < MaxCalls
    /\ earlier' = Append(earlier, [text |-> lines, tokens |-> tokenized])
    /\ segpc' = "idle"
    /\ UNCHANGED <<lines, lineIdx, currentOffset, blocks, cur, impl, tokenized, parsed, lookup, foldingRanges,
                   scan, graphVars, stepVars>>

InitAgain ==
    /\ lines \in {<<l>> : l \in AgainLines}
    /\ lineIdx = 0
    /\ currentOffset = 0
    /\ blocks = <<>>
    /\ cur = NoBlock
    /\ segpc = "idle"
    /\ impl \in {"second", "quickref"}
    /\ tokenized = <<>>
    /\ parsed = NoResult
    /\ lookup = NoLookup
    /\ scan = NoScan
    /\ foldingRanges = <<>>
    /\ earlier = <<>>
    /\ defs = <<>>
    /\ GraphIdle

NextAgain ==
    \/ \E l \in AgainLines : TypeAgainLine(l)
    \/ DeleteLine
    \/ Segment
    \/ SegSkip
    \/ SegOpen
    \/ SegCollect
    \/ SegBreak
    \/ SegClose
    \/ SegReturn
    \/ Tokenize
    \/ NextCall

SpecAgain == InitAgain /\ [][NextAgain]_vars

-----------------------------------------------------------------------------
(* The tokenize(text) of the quick reference that runs a table of regular  *)
(* expressions over the text, one exec loop per entry of the table.        *)

\* TOKEN_DEFINITIONS: the type of each entry and the flags of its regex.
TOKEN_DEFINITIONS ==
    << [type |-> "mapkey.declaration", flags |-> "gm"],
       [type |-> "mapkey.line.begin", flags |-> ""],
       [type |-> "mapkey.line.break", flags |-> ""],
       [type |-> "mapkey.line.end", flags |-> ""],
       [type |-> "mapkey.tag.label", flags |-> ""],
       [type |-> "mapkey.tag.description", flags |-> ""] >>

\* regex.exec(text) for entry d of the table, with regex.lastIndex as it
\* stands: a regex with the g flag searches from lastIndex, one without it
\* searches from 0 whatever lastIndex is.  The result says whether there is
\* a match, where the match ends, and which tokens the loop body pushes.
TableExec(text, d, lastIndex) ==
    LET NoMatch == [matched |-> FALSE, end |-> 0, tokens |-> <<>>]
        Whole(index, end) ==
            [matched |-> TRUE, end |-> end,
             tokens |-> << DocumentToken(TOKEN_DEFINITIONS[d].type,
                                         SubSeq(text, index + 1, end), index, end) >>]
        \* /(\s@TAG)/ : the first white space that the tag follows
        Tagged(tag) ==
            LET at == {k \in 0..(Len(text) - 1) :
                          /\ text[k + 1] \in WhiteSpaceNL
                          /\ StartsWith(SubSeq(text, k + 2, Len(text)), tag)}
            IN  IF at = {} THEN NoMatch
                ELSE LET index == CHOOSE k \in at : \A m \in at : k <= m
                     IN  Whole(index, index + 1 + Len(tag))
        \* /^(mapkey\s+)([^;\s]+[^;]*?)/gm : a line start at or after lastIndex,
        \* the keyword, white space, and a run without ";" and white space
        wsEnd(k) == SkipSpace(text, k + Len(Str_mapkey))
        nameEnd(k) == RunEnd(text, wsEnd(k), WhiteSpaceNL \cup {";"})
        decls == {k \in LineStarts(text) :
                     /\ k >= lastIndex
                     /\ StartsWith(SubSeq(text, k + 1, Len(text)), Str_mapkey)
                     /\ wsEnd(k) > k + Len(Str_mapkey)
                     /\ nameEnd(k) > wsEnd(k)}
    IN  CASE d = 1 ->
                IF decls = {} THEN NoMatch
                ELSE LET index == CHOOSE k \in decls : \A m \in decls : k <= m
                         begin == SubSeq(text, index + 1, wsEnd(index))
                         name == SubSeq(text, wsEnd(index) + 1, nameEnd(index))
                         \* text.indexOf(value, match.index)
                         beginStart == indexOfFrom(text, begin, index)
                         nameStart == indexOfFrom(text, name, index)
                     IN  [matched |-> TRUE, end |-> nameEnd(index),
                          tokens |-> << DocumentToken("mapkey.begin", begin, beginStart,
                                                      beginStart + Len(begin)),
                                        DocumentToken("mapkey.name", name, nameStart,
                                                      nameStart + Len(name)) >>]
          [] d = 2 -> IF StartsWith(text, Str_continued)
                      THEN Whole(0, Len(Str_continued)) ELSE NoMatch
          [] d = 3 -> IF EndsWith(text, <<"\\">>)
                      THEN Whole(Len(text) - 1, Len(text)) ELSE NoMatch
          [] d = 4 -> IF EndsWith(text, Escape)
                      THEN Whole(Len(text) - 2, Len(text)) ELSE NoMatch
          [] d = 5 -> Tagged(Str_MAPKEY_LABEL)
          [] d = 6 -> Tagged(Str_MAPKEY_NAME)

\* mergeMultilineMapkeyNames(text, tokens): a description tag takes in the
\* tokens that follow line breaks, up to a line end.
mergeMultilineMapkeyNames(tokens) ==
    LET typeAt(i) == IF i < Len(tokens) THEN tokens[i + 1].type ELSE "none"
        RECURSIVE SkipBegin(_)
        SkipBegin(i) == IF typeAt(i + 1) = "mapkey.line.begin" THEN SkipBegin(i + 1) ELSE i
        RECURSIVE Continue(_, _, _)
        Continue(i, value, end) ==
            IF typeAt(i + 1) = "mapkey.line.break"
            THEN LET j == SkipBegin(i + 1)
                 IN  IF j + 1 < Len(tokens) /\ typeAt(j + 1) # "mapkey.line.end"
                     THEN Continue(j + 1, value \o <<"\n">> \o tokens[j + 2].value,
                                   tokens[j + 2].end)
                     ELSE [i |-> j, value |-> value, end |-> end]
            ELSE [i |-> i, value |-> value, end |-> end]
        RECURSIVE Merge(_, _)
        Merge(i, merged) ==
            IF i >= Len(tokens) THEN merged
            ELSE LET token == tokens[i + 1]
                 IN  IF token.type = "mapkey.tag.description"
                     THEN LET c == Continue(i, token.value, token.end)
                          IN  Merge(c.i + 1,
                                    Append(merged, DocumentToken(token.type, c.value,
                                                                 token.start, c.end)))
                     ELSE Merge(i + 1, Append(merged, token))
    IN  Merge(0, <<>>)

\* tokenize(text) of the table is called: the loop over the table starts
\* with its first entry, regex.lastIndex = 0.
TableTokenize ==
    /\ segpc = "idle"
    /\ segpc' = "table"
    /\ scan' = [def |-> 1, lastIndex |-> 0, tokens |-> <<>>]
    /\ UNCHANGED <<lines, lineIdx, currentOffset, blocks, cur, impl, tokenized, parsed, earlier,
                   lookup, foldingRanges, graphVars, stepVars>>

\* One iteration of while ((match = regex.exec(text)) !== null): the tokens
\* of the match are pushed; exec has moved lastIndex if the regex has the g
\* flag.
TableMatch ==
    /\ segpc = "table"
    /\ scan.def <= Len(TOKEN_DEFINITIONS)
    /\ Len(scan.tokens) < 2 * Len(lines) + MaxTableTokens
    /\ LET match == TableExec(TextOf(lines), scan.def, scan.lastIndex)
       IN  /\ match.matched
           /\ scan' = [scan EXCEPT !.tokens = @ \o match.tokens,
                                   !.lastIndex = IF TOKEN_DEFINITIONS[scan.def].flags = "gm"
                                                 THEN match.end ELSE @]
    /\ UNCHANGED <<lines, lineIdx, currentOffset, blocks, cur, segpc, impl, tokenized, parsed,
                   earlier, lookup, foldingRanges, graphVars, stepVars>>

\* exec returns null: the while loop ends and the for loop goes to the next
\* entry of the table.
TableNoMatch ==
    /\ segpc = "table"
    /\ scan.def <= Len(TOKEN_DEFINITIONS)
    /\ ~TableExec(TextOf(lines), scan.def, scan.lastIndex).matched
    /\ scan' = [scan EXCEPT !.def = @ + 1, !.lastIndex = 0]
    /\ UNCHANGED <<lines, lineIdx, currentOffset, blocks, cur, segpc, impl, tokenized, parsed,
                   earlier, lookup, foldingRanges, graphVars, stepVars>>

\* The table is done: the tokens are sorted by start, merged and returned.
TableReturn ==
    /\ segpc = "table"
    /\ scan.def > Len(TOKEN_DEFINITIONS)
    /\ tokenized' = mergeMultilineMapkeyNames(SortByStart(scan.tokens))
    /\ segpc' = "tokenized"
    /\ UNCHANGED <<lines, lineIdx, currentOffset, blocks, cur, impl, parsed, earlier, lookup, foldingRanges,
                   scan, graphVars, stepVars>>

InitTable ==
    /\ lines \in {<<l>> : l \in TokLines}
    /\ lineIdx = 0
    /\ currentOffset = 0
    /\ blocks = <<>>
    /\ cur = NoBlock
    /\ segpc = "idle"
    /\ impl = "quickref"
    /\ tokenized = <<>>
    /\ parsed = NoResult
    /\ lookup = NoLookup
    /\ scan = NoScan
    /\ foldingRanges = <<>>
    /\ earlier = <<>>
    /\ defs = <<>>
    /\ GraphIdle

NextTable ==
    \/ \E l \in TokLines : TypeTokLine(l)
    \/ TableTokenize
    \/ TableMatch
    \/ TableNoMatch
    \/ TableReturn

SpecTable == InitTable /\ [][NextTable]_vars

-----------------------------------------------------------------------------
(* The folding provider: addRegionFolding(document, foldingRanges) over    *)
(* the tokens tokenize(document.getText()) returns.                        *)

Line_Region == <<"!", "r", "e", "g", "i", "o", "n">>

Line_EndRegion == <<"!", "e", "n", "d", "r", "e", "g", "i", "o", "n">>

FoldLines == {Line_Region, Line_EndRegion, Line_Blank, Line_DeclA, Line_DeclB, Line_Cont}

\* One more line is typed into the document.
TypeFoldLine(l) ==
    /\ segpc = "idle"
    /\ Len(lines) < MaxFoldLines
    /\ lines' = Append(lines, l)
    /\ UNCHANGED <<lineIdx, currentOffset, blocks, cur, segpc, tokVars, graphVars, stepVars>>

\* document.positionAt(offset).line: the line ends before the offset.
positionAtLine(text, offset) == Cardinality({k \in 1..offset : text[k] = "\n"})

\* The lines of the tokens of a type, in the order of the tokens:
\* if (token.type === type) push(document.positionAt(token.start).line)
RECURSIVE LinesOfType(_, _, _)
LinesOfType(text, tokens, type) ==
    IF tokens = <<>> THEN <<>>
    ELSE (IF Head(tokens).type = type
          THEN <<positionAtLine(text, Head(tokens).start)>> ELSE <<>>)
         \o LinesOfType(text, Tail(tokens), type)

\* new vscode.FoldingRange(startLine, endLine, FoldingRangeKind.Region)
FoldingRange(startLine, endLine) == [start |-> startLine, end |-> endLine]

\* for (const endLine of regionEnds): pop a start if the stack has one, and
\* push a range if the end lies below the start.
RECURSIVE MatchRegionEnds(_, _, _)
MatchRegionEnds(opened, regionEnds, ranges) ==
    IF regionEnds = <<>> THEN ranges
    ELSE IF Len(opened) > 0
    THEN LET startLine == opened[Len(opened)]
             endLine == Head(regionEnds)
         IN  MatchRegionEnds(SubSeq(opened, 1, Len(opened) - 1), Tail(regionEnds),
                             IF endLine > startLine
                             THEN Append(ranges, FoldingRange(startLine, endLine))
                             ELSE ranges)
    ELSE MatchRegionEnds(opened, Tail(regionEnds), ranges)

\* for (const startLine of regionStarts) stack.push(startLine), and then the
\* loop over regionEnds: every start is on the stack before the first end
\* is looked at.
MatchRegionStarts(regionStarts, regionEnds) == MatchRegionEnds(regionStarts, regionEnds, <<>>)

\* addRegionFolding, once tokenize(text) has returned the tokens to it.
AddRegionFolding ==
    /\ segpc = "tokenized"
    /\ LET text == TextOf(lines)
           regionStarts == LinesOfType(text, tokenized, "region.start")
           regionEnds == LinesOfType(text, tokenized, "region.end")
       IN  foldingRanges' = MatchRegionStarts(regionStarts, regionEnds)
    /\ segpc' = "folded"
    /\ UNCHANGED <<lines, lineIdx, currentOffset, blocks, cur, impl, tokenized, parsed, earlier,
                   lookup, scan, graphVars, stepVars>>

InitFold ==
    /\ lines \in {<<l>> : l \in FoldLines}
    /\ lineIdx = 0
    /\ currentOffset = 0
    /\ blocks = <<>>
    /\ cur = NoBlock
    /\ segpc = "idle"
    /\ impl \in {"second", "quickref"}
    /\ tokenized = <<>>
    /\ parsed = NoResult
    /\ lookup = NoLookup
    /\ scan = NoScan
    /\ foldingRanges = <<>>
    /\ earlier = <<>>
    /\ defs = <<>>
    /\ GraphIdle

NextFold ==
    \/ \E l \in FoldLines : TypeFoldLine(l)
    \/ Segment
    \/ SegSkip
    \/ SegOpen
    \/ SegCollect
    \/ SegBreak
    \/ SegClose
    \/ SegReturn
    \/ Tokenize
    \/ AddRegionFolding

SpecFold == InitFold /\ [][NextFold]_vars

-----------------------------------------------------------------------------
(* Graph vocabulary of the claims.                                         *)

\* The call graph of the document, and the calls of an entry.
GraphOf(d) == buildCallGraph(d)

CallsOf(graph, k) == Range(Callees(graph, k).items)

\* The graph is exactly one cycle over its keys: each key calls one name, the
\* next key, and the last key calls the first.
IsPureCycle(graph) ==
    /\ Len(graph) >= 1
    /\ \A i \in 1..Len(graph) :
          graph[i].value = <<graph[IF i = Len(graph) THEN 1 ELSE i + 1].key>>

SelfLoop(graph, a) == HasOwn(graph, a) /\ a \in CallsOf(graph, a)

MutualCycle(graph, a, b) ==
    /\ a # b
    /\ HasOwn(graph, a) /\ HasOwn(graph, b)
    /\ b \in CallsOf(graph, a) /\ a \in CallsOf(graph, b)

\* Names called somewhere in the document that no definition declares.
Dangling(d) == UNION {Range(d[i].calledMapkeys) : i \in 1..Len(d)} \ NamesOf(d)

FirstIndex(d, n) == CHOOSE i \in 1..Len(d) : d[i].name = n /\ \A j \in 1..(i - 1) : d[j].name # n

LastIndex(d, n) == CHOOSE i \in 1..Len(d) : d[i].name = n /\ \A j \in (i + 1)..Len(d) : d[j].name # n

HasDuplicateNames(d) == \E i, j \in 1..Len(d) : i < j /\ d[i].name = d[j].name

-----------------------------------------------------------------------------
\* C1 (as claimed): getMapkeyDepth returns 0 for every name on a self-loop
\* or on a mutual cycle A -> B -> A.
C1_DepthZeroOnCycle ==
    (op = "getMapkeyDepth" /\ ~depth.threw
        /\ (SelfLoop(GraphOf(defs), arg)
             \/ \E b \in NamesOf(defs) : MutualCycle(GraphOf(defs), arg, b)))
    => depth.value = 0

\* C1 (amended): when the call graph is exactly one cycle of n distinct names,
\* getMapkeyDepth returns n for every name on it (1 for a self-loop, 2 for
\* A -> B -> A): the call that revisits a name returns 0, and the edge that
\* leads to it still counts 1.
C1_DepthOnPureCycle ==
    (op = "getMapkeyDepth" /\ IsPureCycle(GraphOf(defs)) /\ arg \in NamesOf(defs))
    => (~depth.threw /\ depth.value = Len(GraphOf(defs)))

C1_Witness ==
    /\ op = "getMapkeyDepth"
    /\ defs = <<MapkeyDefinition("A", <<"B">>), MapkeyDefinition("B", <<"A">>)>>
    /\ arg = "B"
    /\ depth = Returned(2)

\* C2: findCircularDependencies returns a list that holds [A, A] for every
\* self-loop A -> A, and for every mutual cycle A -> B -> A a cycle whose set
\* of names is exactly {A, B}.
C2_CyclesReported ==
    (op = "findCircularDependencies" /\ ~cycles.threw)
    => /\ \A a \in NamesOf(defs) :
            SelfLoop(GraphOf(defs), a) => <<a, a>> \in Range(cycles.value)
       /\ \A a, b \in NamesOf(defs) :
            MutualCycle(GraphOf(defs), a, b)
            => \E c \in Range(cycles.value) : Range(c) = {a, b}

C2_Witness ==
    /\ op = "findCircularDependencies"
    /\ defs = <<MapkeyDefinition("A", <<"B">>), MapkeyDefinition("B", <<"A", "B">>)>>
    /\ cycles = Returned(<< <<"A", "B", "A">>, <<"B", "B">>, <<"B", "B">> >>)

\* C3: on every finite call graph (self-loops, mutual cycles, shared
\* sub-graphs, dangling targets) and for every start name, getMapkeyDepth and
\* findCircularDependencies terminate: a run that has started ends (it
\* returns or throws), every branch of the recursion carries a strictly
\* growing set of names, and its depth is bounded by the number of names.
C3_Terminates ==
    /\ [](DFS_BranchGrows /\ DFS_StackBound)
    /\ (Running ~> Finished)

\* A run of findCircularDependencies over a mutual cycle has ended.
C3_Witness ==
    /\ Finished
    /\ op = "findCircularDependencies"
    /\ defs = <<MapkeyDefinition("A", <<"B">>), MapkeyDefinition("B", <<"A">>)>>
    /\ cycles = Returned(<< <<"A", "B", "A">> >>)

\* The violations a chain R1 -> ... -> Rn gives with the limit of the code:
\* Ri has depth n - i.
ChainViolations(n) ==
    [i \in 1..(IF n > NestingLimit + 1 THEN n - (NestingLimit + 1) ELSE 0) |->
        [mapkey |-> ChainNames[i], depth |-> n - i]]

\* C4 (as claimed): on the chain of 6 records checkNestingDepth reports R1
\* with depth 5, and on the chain of 5 records it reports nothing.
C4_ChainOfSixFlagged ==
    (op = "checkNestingDepth" /\ ~violations.threw)
    => /\ defs = Chain(6) => [mapkey |-> "R1", depth |-> 5] \in Range(violations.value)
       /\ defs = Chain(5) => violations.value = <<>>

\* C4 (amended): on the chain of 7 records checkNestingDepth reports R1 with
\* depth 6 and nothing else; on a chain of 6 or fewer it reports nothing (R1 of
\* the chain of 6 has depth 5, which does not exceed 5).  In general Ri of a
\* chain of n is reported, with depth n - i, exactly when n - i > 5.
C4_ChainOfSevenFlagged ==
    \A n \in 1..MaxChain :
        (op = "checkNestingDepth" /\ defs = Chain(n))
        => violations = Returned(ChainViolations(n))

C4_Witness ==
    /\ op = "checkNestingDepth"
    /\ defs = Chain(7)
    /\ violations = Returned(<<[mapkey |-> "R1", depth |-> 6]>>)

\* The definitions, in order, whose name has a depth above `limit`.
RECURSIVE Above(_, _, _)
Above(d, limit, i) ==
    IF i > Len(d) THEN <<>>
    ELSE LET dep == getMapkeyDepth(d, d[i].name).value IN
         (IF dep > limit THEN <<[mapkey |-> d[i].name, depth |-> dep]>> ELSE <<>>)
         \o Above(d, limit, i + 1)

\* C5 (as claimed): the list returned holds, for the limit the caller
\* supplies, one entry per definition whose depth is above that limit, in
\* definition order, and nothing else.
C5_CallerLimit ==
    (op = "checkNestingDepth" /\ ~violations.threw)
    => violations.value = Above(defs, arg, 1)

\* C5 (amended): checkNestingDepth takes no limit.  Whenever it returns, the
\* list holds, for the fixed limit 5, one {mapkey, depth} entry per definition
\* whose name has a depth above 5, in definition order, and nothing else.
C5_FixedLimit ==
    (op = "checkNestingDepth" /\ ~violations.threw)
    => violations.value = Above(defs, NestingLimit, 1)

C5_Witness ==
    /\ op = "checkNestingDepth"
    /\ arg = NestingLimit - 1
    /\ Len(defs) = 6
    /\ ~violations.threw
    /\ Len(violations.value) = 6

\* C6: a called name that no definition declares is listed among the
\* caller's callees, has depth 0, is in no reported cycle, and neither
\* getMapkeyDepth nor findCircularDependencies throws for it.
C6_DanglingIsLeaf ==
    /\ op = "buildCallGraph"
       => \A i \in 1..Len(defs) : \A n \in Range(defs[i].calledMapkeys) \cap Dangling(defs) :
             i = LastIndex(defs, defs[i].name) => n \in CallsOf(callGraph, defs[i].name)
    /\ (op = "getMapkeyDepth" /\ arg \in Dangling(defs))
       => depth = Returned(0)
    /\ (op = "findCircularDependencies" /\ Dangling(defs) # {})
       => /\ ~cycles.threw
          /\ \A c \in Range(cycles.value) : Range(c) \cap Dangling(defs) = {}

Resolved(d, pick(_, _)) ==
    LET firsts == SelectSeq([i \in 1..Len(d) |-> i], LAMBDA i : i = FirstIndex(d, d[i].name))
    IN [k \in 1..Len(firsts) |->
          MapkeyDefinition(d[firsts[k]].name, d[pick(d, d[firsts[k]].name)].calledMapkeys)]

\* C8 (as claimed): the entry of a shared name holds the calls of the first
\* definition of that name, and depth and cycles are computed from them.
C8_FirstWins ==
    /\ op = "buildCallGraph"
       => \A k \in 1..Len(callGraph) :
             callGraph[k].value = defs[FirstIndex(defs, callGraph[k].key)].calledMapkeys
    /\ op = "getMapkeyDepth" => depth = getMapkeyDepth(Resolved(defs, FirstIndex), arg)
    /\ op = "findCircularDependencies"
       => cycles = findCircularDependencies(Resolved(defs, FirstIndex))

\* C8 (amended): the entry of a shared name holds the calls of the last
\* definition of that name in document order (last-wins), and depth and
\* cycles are computed from the last definition's calls.
C8_LastWins ==
    /\ op = "buildCallGraph"
       => \A k \in 1..Len(callGraph) :
             callGraph[k].value = defs[LastIndex(defs, callGraph[k].key)].calledMapkeys
    /\ op = "getMapkeyDepth" => depth = getMapkeyDepth(Resolved(defs, LastIndex), arg)
    /\ op = "findCircularDependencies"
       => cycles = findCircularDependencies(Resolved(defs, LastIndex))

C8_Witness ==
    /\ op = "getMapkeyDepth"
    /\ defs = <<MapkeyDefinition("A", <<>>), MapkeyDefinition("A", <<"B">>)>>
    /\ arg = "A"
    /\ depth = Returned(1)

-----------------------------------------------------------------------------
(* The claims about the Segmenter.                                         *)

\* C9: the blocks of extractMapkeyBlocks are in document order and do not
\* overlap (a later block starts at or after the end of the one before it),
\* and every block has 0 <= start <= end <= length of the text.
C9_BlocksInOrder ==
    /\ \A k \in 1..Len(blocks) :
          /\ 0 <= blocks[k].start
          /\ blocks[k].start <= blocks[k].end
          /\ blocks[k].end <= Len(TextOf(lines))
    /\ \A k \in 1..(Len(blocks) - 1) :
          /\ blocks[k].start < blocks[k + 1].start
          /\ blocks[k].end <= blocks[k + 1].start

\* A record of two lines, a line outside any record, and a second record.
C9_Witness ==
    /\ segpc = "returned"
    /\ lines = <<Line_DeclA, Line_ContEnd, Line_Other, Line_DeclB>>
    /\ Len(blocks) = 2
    /\ blocks[1].start = 0 /\ blocks[1].end = 46
    /\ blocks[2].start = 50 /\ blocks[2].end = 59

\* C10 (as claimed): a declaration line is never consumed as part of an
\* earlier block: when extractMapkeyBlocks has returned, every declaration
\* line of the text is the first line of a block of its own, and the block
\* before it ends on an earlier line.
C10_DeclarationOpensBlock ==
    segpc = "returned" =>
        \A k \in 1..Len(lines) :
            DECLARATION(lines[k]).matched =>
                /\ \E b \in 1..Len(blocks) : blocks[b].start = OffsetOfLine(lines, k - 1)
                /\ \A b \in 1..Len(blocks) :
                      blocks[b].start < OffsetOfLine(lines, k - 1)
                          => blocks[b].end < OffsetOfLine(lines, k - 1)

-----------------------------------------------------------------------------
(* Vocabulary of the claims about the lines a block takes.                 *)

\* The line (from 0) at which a block starts.
LineOfBlock(b) == CHOOSE k \in 0..(Len(lines) - 1) : OffsetOfLine(lines, k) = b.start

\* A line that starts with the continuation marker, and a comment line.
IsContinuationLine(l) == StartsWith(Trim(l), Str_continued)

IsCommentLine(l) == StartsWith(Trim(l), <<"!">>)

\* The escape-continuation suffix: a trailing backslash.
HasEscapeSuffix(l) == EndsWith(Trim(l), <<"\\">>)

\* The last line (from 0) of the record declared at line d, when lines d..k
\* are already taken: a continuation or comment line is taken, and the
\* record goes on after it only if it ends with the escape suffix.
RECURSIVE LastLineOfRecord(_)
LastLineOfRecord(k) ==
    IF k + 1 >= Len(lines) THEN k
    ELSE LET l == lines[k + 2]
         IN  IF ~(IsContinuationLine(l) \/ IsCommentLine(l)) THEN k
             ELSE IF HasEscapeSuffix(l) THEN LastLineOfRecord(k + 1)
             ELSE k + 1

\* C11 (as claimed): when extractMapkeyBlocks has returned, every block holds
\* its declaration line, every continuation or comment line after it that
\* follows lines ending with the escape suffix, and stops at and includes
\* the first such line that does not end with that suffix.
C11_StopsAtUnescapedLine ==
    segpc = "returned" =>
        \A b \in 1..Len(blocks) :
            LET d == LineOfBlock(blocks[b])
            IN  blocks[b].content = Join(SubSeq(lines, d + 1, LastLineOfRecord(d) + 1))

\* The lines (from 0) that hold a declaration.
DeclarationLines == {k \in 0..(Len(lines) - 1) : DECLARATION(lines[k + 1]).matched}

\* The record declared at line d never reaches an un-escaped terminator: the
\* last line taken for it still ends with the escape suffix.
Unterminated(d) == HasEscapeSuffix(lines[LastLineOfRecord(d) + 1])

\* The blocks that start at line d.
BlocksAt(d) == {b \in 1..Len(blocks) : blocks[b].start = OffsetOfLine(lines, d)}

\* C12 (as claimed): a record that never reaches an un-escaped terminator
\* before a blank line, a new declaration or the end of the text yields
\* exactly one block, which ends where the last line taken for it ends, and
\* every declaration after it has a block of its own.
C12_UnterminatedRecordIsBlock ==
    segpc = "returned" =>
        \A d \in DeclarationLines :
            Unterminated(d) =>
                /\ Cardinality(BlocksAt(d)) = 1
                /\ \A b \in BlocksAt(d) : blocks[b].end = EndOfLine(lines, LastLineOfRecord(d))
                /\ \A d2 \in DeclarationLines : d2 > d => BlocksAt(d2) # {}

\* C13 (as claimed): every token of every block carries a start and an end
\* offset, and its end is greater than its start.
C13_TokensHaveExtent ==
    \A b \in 1..Len(blocks) :
        \A t \in 1..Len(blocks[b].tokens) :
            LET token == blocks[b].tokens[t]
            IN  /\ {"start", "end"} \subseteq DOMAIN token
                /\ token.end > token.start

-----------------------------------------------------------------------------
(* Claims about the tokens of tokenize(text).                              *)

\* C14: the list tokenize(text) returns, block tokens and document-level
\* tokens together, is sorted by start: no token starts before the token in
\* front of it.
C14_SortedByStart ==
    segpc = "tokenized" =>
        \A k \in 1..(Len(tokenized) - 1) : tokenized[k].start <= tokenized[k + 1].start

\* A comment in front of a record: the comment's token is pushed last, with
\* the document-level tokens, and comes first in the list returned.
C14_Witness ==
    /\ segpc = "tokenized"
    /\ impl = "quickref"
    /\ lines = <<Line_CommentEnd, Line_DeclB>>
    /\ Len(tokenized) = 3
    /\ tokenized[1].type = "comment.standalone" /\ tokenized[1].start = 0
    /\ tokenized[2].type = "mapkey.keyword" /\ tokenized[2].start = 3
    /\ tokenized[3].type = "mapkey.name" /\ tokenized[3].start = 10

\* Two tokens overlap: each starts before the other ends.
Overlap(a, b) == a.start < b.end /\ b.start < a.end

\* C15 (as claimed): no two tokens of the same kind in the list
\* tokenize(text) returns have overlapping ranges, also when a record holds
\* two name tags or two label tags with no terminator between them.
C15_NoOverlapInKind ==
    segpc = "tokenized" =>
        \A j, k \in 1..Len(tokenized) :
            (j < k /\ tokenized[j].type = tokenized[k].type)
                => ~Overlap(tokenized[j], tokenized[k])

\* C16: a call of tokenize on a text returns what every earlier call on the
\* same text returned, whatever texts were tokenized in between: the result
\* depends on the text and on nothing an earlier call left behind.
C16_SameTextSameTokens ==
    segpc = "tokenized" =>
        \A k \in 1..Len(earlier) : earlier[k].text = lines => earlier[k].tokens = tokenized

\* The third call, on the text of the first call, after a call on another
\* text.
C16_Witness ==
    /\ segpc = "tokenized"
    /\ Len(earlier) = 2
    /\ earlier[1].text = lines
    /\ earlier[2].text # lines
    /\ earlier[2].tokens # tokenized
    /\ tokenized # <<>>
    /\ earlier[1].tokens = tokenized

\* The tokens of a kind in the list tokenize(text) returned.
TokensOfKind(type) == {k \in 1..Len(tokenized) : tokenized[k].type = type}

\* C17 (as claimed): for the record of a declaration line and two
\* continuation lines, where the label starts on the first continuation line
\* ("p", then the escape) and ends at the terminator of the second ("z;"),
\* tokenize returns exactly one label token, its value is "p z", and it ends
\* at or before the terminator.
C17_LabelOverTwoLines ==
    (segpc = "tokenized" /\ lines = <<Line_DeclB, Line_LabelOpen, Line_ContEnd>>)
    => /\ Cardinality(TokensOfKind("mapkey.label")) = 1
       /\ \A k \in TokensOfKind("mapkey.label") :
             /\ tokenized[k].value = <<"p", " ", "z">>
             /\ tokenized[k].end <= Len(TextOf(lines)) - 1

\* The tags that carry content: the tag, the kind of its marker token and
\* the kind of its content token.
ContentTags ==
    { [tag |-> Str_MAPKEY_NAME, marker |-> "mapkey.tag.name", content |-> "mapkey.description"],
      [tag |-> Str_MAPKEY_LABEL, marker |-> "mapkey.tag.label", content |-> "mapkey.label"],
      [tag |-> Str_SYSTEM, marker |-> "mapkey.system.command",
       content |-> "mapkey.system.instruction"] }

\* A piece of text holds only white space, continuation prefixes and escape
\* suffixes.
RECURSIVE OnlyFiller(_)
OnlyFiller(piece) ==
    IF piece = <<>> THEN TRUE
    ELSE IF Head(piece) \in WhiteSpaceNL \cup {"\\"} THEN OnlyFiller(Tail(piece))
    ELSE IF StartsWith(piece, Str_continued)
         THEN OnlyFiller(SubSeq(piece, Len(Str_continued) + 1, Len(piece)))
    ELSE FALSE

\* The content of the tag that ends at tagEnd is empty after flattening:
\* only filler before the terminator or the end of the block.
EmptyContent(content, tagEnd) ==
    LET semi == indexOfFrom(content, <<";">>, tagEnd)
    IN  OnlyFiller(SubSeq(content, tagEnd + 1, IF semi = -1 THEN Len(content) ELSE semi))

\* The positions of a tag in a block.
TagsIn(block, tag) == Range(execAll(block.content, tag, 0))

\* C18 (as claimed): when tokenize has returned, a block whose occurrences of
\* a name tag, label tag or system tag all have empty content carries the
\* marker token of every occurrence and no content token of that tag.
C18_EmptyTagHasNoContentToken ==
    segpc = "tokenized" =>
        \A b \in 1..Len(blocks) : \A t \in ContentTags :
            (/\ TagsIn(blocks[b], t.tag) # {}
             /\ \A at \in TagsIn(blocks[b], t.tag) :
                   EmptyContent(blocks[b].content, at + Len(t.tag)))
            => /\ \A at \in TagsIn(blocks[b], t.tag) :
                     \E k \in 1..Len(blocks[b].tokens) :
                         /\ blocks[b].tokens[k].type = t.marker
                         /\ blocks[b].tokens[k].start = blocks[b].start + at
               /\ \A k \in 1..Len(blocks[b].tokens) : blocks[b].tokens[k].type # t.content

\* The tags a definition takes a field from: the tag, the kind of its
\* content token and the field.
FieldTags ==
    { [tag |-> Str_MAPKEY_NAME, content |-> "mapkey.description", field |-> "description"],
      [tag |-> Str_MAPKEY_LABEL, content |-> "mapkey.label", field |-> "label"] }

\* The field of a definition.
FieldOf(def, field) == IF field = "description" THEN def.description ELSE def.label

\* The first of a non-empty set of positions.
First(positions) == CHOOSE k \in positions : \A m \in positions : k <= m

\* The values of the content tokens of the tag occurrence at position at.
ContentOf(block, t, at) ==
    { block.tokens[k].value : k \in { m \in 1..Len(block.tokens) :
                                         /\ block.tokens[m].type = t.content
                                         /\ block.tokens[m].start = block.start + at + Len(t.tag) } }

\* The occurrences of a tag whose content is not empty.
WithContent(block, tag) ==
    { at \in TagsIn(block, tag) : ~EmptyContent(block.content, at + Len(tag)) }

\* parseMapkeys has returned the definitions of at least one block.
Built == segpc = "parsed" /\ ~parsed.threw /\ Len(parsed.value) > 0

\* C19 (as claimed): in a block with several occurrences of a name tag or of
\* a label tag, the description or label of the definition is the content of
\* the first occurrence, never that of a later one.
C19_FirstOccurrenceDecides ==
    (segpc = "parsed" /\ ~parsed.threw) =>
        \A b \in 1..Len(parsed.value) : \A t \in FieldTags :
            Cardinality(TagsIn(blocks[b], t.tag)) >= 2
            => \/ FieldOf(parsed.value[b], t.field) = Undefined
               \/ FieldOf(parsed.value[b], t.field)
                      \in ContentOf(blocks[b], t, First(TagsIn(blocks[b], t.tag)))

\* C19 (amended): in a block with several occurrences of a name tag or of a
\* label tag, the description or label of the definition is the content of
\* the first occurrence whose content is not empty, and is undefined when
\* every occurrence is empty.
C19_FirstContentDecides ==
    (segpc = "parsed" /\ ~parsed.threw) =>
        \A b \in 1..Len(parsed.value) : \A t \in FieldTags :
            Cardinality(TagsIn(blocks[b], t.tag)) >= 2
            => IF WithContent(blocks[b], t.tag) = {}
               THEN FieldOf(parsed.value[b], t.field) = Undefined
               ELSE ContentOf(blocks[b], t, First(WithContent(blocks[b], t.tag)))
                        = {FieldOf(parsed.value[b], t.field)}

\* A block with two name tags, the first of them with content, has its
\* definition.
C19_Witness ==
    /\ segpc = "parsed"
    /\ ~parsed.threw
    /\ lines = <<Line_DeclB, Line_Cont, Line_TwoNames>>
    /\ Len(parsed.value) = 1
    /\ parsed.value[1].description = <<"y">>

\* The names of the nested calls of a text, in order of occurrence: a marker
\* "%", a name of at least one character without ";", and the terminator.
RECURSIVE NestedNames(_)
NestedNames(content) ==
    IF Len(content) < 3 THEN <<>>
    ELSE LET semi == indexOfFrom(content, <<";">>, 1)
         IN  IF Head(content) = "%" /\ semi > 1
             THEN <<SubSeq(content, 2, semi)>>
                  \o NestedNames(SubSeq(content, semi + 2, Len(content)))
             ELSE NestedNames(Tail(content))

\* C20 (as claimed): every nested call in the content of a block has its own
\* nested-call name token, repeated names included, and calledMapkeys of the
\* block's definition lists the names in order of occurrence; it is empty for
\* a block without a nested call.
C20_CalledNamesAreOccurrences ==
    /\ segpc = "tokenized" =>
           \A b \in 1..Len(blocks) :
               FilterValues(blocks[b].tokens, "mapkey.nested.name") = NestedNames(blocks[b].content)
    /\ (segpc = "parsed" /\ ~parsed.threw) =>
           \A b \in 1..Len(parsed.value) :
               parsed.value[b].calledMapkeys = NestedNames(blocks[b].content)

\* A position lookup has returned or thrown for a position outside the text.
LookedOutside ==
    /\ segpc = "looked"
    /\ \/ lookup.position < 0
       \/ lookup.position > Len(TextOf(lines))

\* C21 (as claimed): a position lookup with a position outside the text
\* (negative, or greater than the length of the text) fails with an
\* out-of-range condition.
C21_OutsideFails ==
    LookedOutside => (lookup.result.threw /\ lookup.result.value = "RangeError")

\* C21 (amended): a position lookup with a position outside the text raises
\* no out-of-range condition: getTokenAtPosition returns null, and
\* getBlockAtPosition and getMapkeyAtPosition return null unless the
\* getMapkeyBlocks of tokenizer.js throws its ReferenceError, which it does
\* for every text with a block and for every position.
C21_OutsideIsNull ==
    LookedOutside =>
        IF lookup.fn # "getTokenAtPosition" /\ impl # "quickref" /\ blocks # <<>>
        THEN lookup.result.threw /\ lookup.result.value = "ReferenceError"
        ELSE ~lookup.result.threw /\ lookup.result.value = Null

\* getTokenAtPosition has returned null for the position after the length of
\* a text that has tokens.
C21_Witness ==
    /\ segpc = "looked"
    /\ lookup.fn = "getTokenAtPosition"
    /\ lookup.position = Len(TextOf(lines)) + 1
    /\ tokenized # <<>>
    /\ ~lookup.result.threw
    /\ lookup.result.value = Null

\* C22 (as claimed): parseMapkeys returns a list of definitions for every
\* text and never throws, also when the text has a declaration line.
C22_ParseNeverThrows ==
    segpc = "parsed" => ~parsed.threw

\* C23 (as claimed): every scanning loop advances its position on each
\* iteration: an iteration of the line loops of extractMapkeyBlocks moves to
\* the next line, and an iteration of a match loop of tokenize leaves
\* regex.lastIndex behind where it was.
C23_LoopsAdvance ==
    [][/\ (segpc = "scan" /\ segpc' \in {"scan", "collect"}) => lineIdx' > lineIdx
       /\ (segpc = "collect" /\ segpc' = "collect") => lineIdx' > lineIdx
       /\ (segpc = "table" /\ segpc' = "table" /\ scan'.def = scan.def)
              => scan'.lastIndex > scan.lastIndex]_vars

\* The blocks carry the tokens tokenizeMapkeyContent returned for them.
ContentTokenized == impl = "quickref" /\ segpc \in {"tokenized", "parsed"}

\* The tokens of a list are in non-decreasing order of start.
SortedByStart(tokens) ==
    \A i, j \in 1..Len(tokens) : i < j => tokens[i].start <= tokens[j].start

\* The step of tokenizeMapkeyContent that pushes the tokens of a type: the
\* declaration, the name tags, the label tags, the system commands, the
\* nested calls, the actions, the comments, the continuation markers.
StepOf(type) ==
    CASE type \in {"mapkey.keyword", "mapkey.name"} -> 1
      [] type \in {"mapkey.tag.name", "mapkey.description"} -> 2
      [] type \in {"mapkey.tag.label", "mapkey.label"} -> 3
      [] type \in {"mapkey.system.command", "mapkey.system.instruction"} -> 4
      [] type \in {"mapkey.nested.marker", "mapkey.nested.name", "mapkey.nested.terminator"} -> 5
      [] type = "comment.line" -> 7
      [] type = "mapkey.continuation" -> 8
      [] OTHER -> 6

\* C24 (as claimed): the token list tokenizeMapkeyContent returns for a block
\* is sorted non-decreasing by start.
C24_BlockTokensSorted ==
    ContentTokenized => \A b \in 1..Len(blocks) : SortedByStart(blocks[b].tokens)

\* C24 (amended): the token list tokenizeMapkeyContent returns for a block is
\* in the order of its steps (declaration, name tags, label tags, system
\* commands, nested calls, actions, comments, continuation markers), and the
\* tokens of one type are in non-decreasing order of start.
C24_BlockTokensByStep ==
    ContentTokenized =>
        \A b \in 1..Len(blocks) :
            \A i, j \in 1..Len(blocks[b].tokens) :
                i < j => LET a == blocks[b].tokens[i]
                             c == blocks[b].tokens[j]
                         IN  /\ StepOf(a.type) <= StepOf(c.type)
                             /\ a.type = c.type => a.start <= c.start

\* A block has its tokens, and a continuation marker comes after a
\* description that starts behind it.
C24_Witness ==
    /\ ContentTokenized
    /\ lines = <<Line_DeclB, Line_Cont>>
    /\ Len(blocks) = 1
    /\ ~SortedByStart(blocks[1].tokens)

\* The tokens of a block that have a type.
TokensOfBlock(block, type) ==
    {k \in 1..Len(block.tokens) : block.tokens[k].type = type}

\* C25 (as claimed): when tokenize has returned, every block has a name token
\* that addresses the declared name: it lies in the range of the block, it
\* starts where the name starts behind the keyword and the white space, and
\* the text between its start and its end is its value.
C25_NameTokenAddressesName ==
    segpc = "tokenized" =>
        \A b \in 1..Len(blocks) :
            /\ TokensOfBlock(blocks[b], "mapkey.name") # {}
            /\ \A k \in TokensOfBlock(blocks[b], "mapkey.name") :
                   LET t == blocks[b].tokens[k]
                   IN  /\ blocks[b].start <= t.start
                       /\ t.start <= t.end
                       /\ t.end <= blocks[b].end
                       /\ t.start = SkipSpace(TextOf(lines), blocks[b].start + Len(Str_mapkey))
                       /\ SubSeq(TextOf(lines), t.start + 1, t.end) = t.value

\* The names a name calls in a call graph.
CalledBy(graph, n) ==
    IF HasOwn(graph, n)
    THEN Range(graph[CHOOSE i \in 1..Len(graph) : graph[i].key = n].value)
    ELSE {}

\* The names that can be reached from the names of S along the calls.
RECURSIVE ReachFrom(_, _)
ReachFrom(graph, S) ==
    LET T == S \cup UNION {CalledBy(graph, n) : n \in S}
    IN  IF T = S THEN S ELSE ReachFrom(graph, T)

\* The names the top-level calls of findCycles before the running one have
\* explored: the keys they started from and what can be reached from them.
ExploredEarlier ==
    LET graph == buildCallGraph(defs)
    IN  ReachFrom(graph, {graph[k].key : k \in 1..(topK - 1)})

\* findCycles passes its two tests and starts the loop over the callees of
\* its name.
Explores ==
    /\ pc = "cycles"
    /\ stack # <<>>
    /\ Top.i = 0
    /\ pc' = "cycles"
    /\ Len(stack') = Len(stack)
    /\ stack'[Len(stack)].i = 1

\* C26 (as claimed): in findCircularDependencies, a name that an earlier
\* top-level call of findCycles has explored, as its root or below its root,
\* is not explored again by a later top-level call.
C26_NoSecondExploration ==
    [][Explores => Top.name \notin ExploredEarlier]_vars

\* A stage that works on what extractMapkeyBlocks or parseMapkeys returned
\* takes its step.
LaterStage == segpc \in {"returned", "tokenized", "parsed"}

\* An analysis of the call graph returns a result.
AnalysisReturns ==
    \/ callGraph' # callGraph
    \/ depth' # depth
    \/ cycles' # cycles
    \/ violations' # violations

\* C27 (as claimed): no stage modifies what an earlier stage produced: the
\* blocks extractMapkeyBlocks returned stay as they are, their tokens
\* included, the definitions parseMapkeys returned stay as they are, and an
\* analysis leaves the definitions and their calledMapkeys as they are.
C27_NothingModified ==
    [][/\ LaterStage => blocks' = blocks
       /\ segpc = "parsed" => parsed' = parsed
       /\ AnalysisReturns => defs' = defs]_vars

\* C27 (amended): no stage modifies what an earlier stage produced, except
\* that tokenize and getMapkeyBlocks of the quick reference set the tokens
\* field of every block: the other fields of the blocks, the definitions and
\* their calledMapkeys stay as they are, and with the tokenize of
\* tokenizer.js the blocks stay as they are, their tokens included.
C27_OnlyTokensSet ==
    [][/\ LaterStage =>
              /\ Len(blocks') = Len(blocks)
              /\ \A b \in 1..Len(blocks) :
                     [blocks'[b] EXCEPT !.tokens = blocks[b].tokens] = blocks[b]
              /\ impl # "quickref" => blocks' = blocks
       /\ segpc = "parsed" => parsed' = parsed
       /\ AnalysisReturns => defs' = defs]_vars

\* tokenize of the quick reference has returned, and a block that
\* extractMapkeyBlocks built without tokens has tokens.
C27_Witness ==
    /\ segpc = "tokenized"
    /\ impl = "quickref"
    /\ lines = <<Line_DeclB, Line_Nested>>
    /\ Len(blocks) = 1
    /\ Len(blocks[1].tokens) = 6
    /\ blocks[1].content = TextOf(lines)

\* A list of names is a cycle of a call graph: it closes, every name calls
\* the next one, and no name but the first occurs twice.
IsCycleOf(graph, c) ==
    /\ Len(c) >= 2
    /\ c[1] = c[Len(c)]
    /\ \A i \in 1..(Len(c) - 1) : HasOwn(graph, c[i]) /\ c[i + 1] \in CallsOf(graph, c[i])
    /\ \A i, j \in 1..(Len(c) - 1) : i # j => c[i] # c[j]

\* C28: every list findCircularDependencies returns is a cycle of the call
\* graph: at least two elements, the first equal to the last, every name
\* calling the next, and the names before the last pairwise distinct.
C28_CyclesAreCycles ==
    (op = "findCircularDependencies" /\ ~cycles.threw)
    => \A k \in 1..Len(cycles.value) : IsCycleOf(GraphOf(defs), cycles.value[k])

\* findCircularDependencies has returned a cycle over three names that was
\* found below the root of its search.
C28_Witness ==
    /\ op = "findCircularDependencies"
    /\ ~cycles.threw
    /\ \E k \in 1..Len(cycles.value) :
           /\ Len(cycles.value[k]) = 4
           /\ cycles.value[k][1] # defs[1].name

\* No name of the call graph can be reached from its own callees.
Acyclic(graph) ==
    \A k \in 1..Len(graph) : graph[k].key \notin ReachFrom(graph, CalledBy(graph, graph[k].key))

\* The names from which no path of more than n edges starts: those that
\* call nothing for n = 0, those whose callees are all a level below for
\* n + 1.
RECURSIVE Within(_, _, _)
Within(graph, names, n) ==
    IF n = 0 THEN {x \in names : CalledBy(graph, x) = {}}
    ELSE {x \in names : CalledBy(graph, x) \subseteq Within(graph, names, n - 1)}

\* The number of edges on the longest path of an acyclic graph that starts
\* at the name.
LongestPath(graph, name) ==
    LET names == ReachFrom(graph, {name})
        n == CHOOSE m \in 0..Cardinality(names) :
                 /\ name \in Within(graph, names, m)
                 /\ \A q \in 0..(m - 1) : name \notin Within(graph, names, q)
    IN  n

\* C29: on an acyclic call graph getMapkeyDepth returns, for every name, the
\* number of edges on the longest path that starts at the name: 0 for a
\* name that calls nothing or has no entry in the graph, whatever the order
\* and the repetitions of the names in the callee lists.
C29_DepthIsLongestPath ==
    (op = "getMapkeyDepth" /\ Acyclic(GraphOf(defs)))
    => (~depth.threw /\ depth.value = LongestPath(GraphOf(defs), arg))

\* The line opens a region, or closes one: white space and the marker.
OpensRegion(l) == StartsWith(SubSeq(l, SkipSpace(l, 0) + 1, Len(l)), Line_Region)

ClosesRegion(l) == StartsWith(SubSeq(l, SkipSpace(l, 0) + 1, Len(l)), Line_EndRegion)

\* The pairs of a document read line by line from line i on, with the lines
\* of the regions that are open: a closing line takes the last open region.
RECURSIVE RegionPairs(_, _, _)
RegionPairs(ls, i, open) ==
    IF i > Len(ls) THEN {}
    ELSE IF OpensRegion(ls[i]) THEN RegionPairs(ls, i + 1, Append(open, i - 1))
    ELSE IF ClosesRegion(ls[i]) /\ open # <<>>
    THEN {FoldingRange(open[Len(open)], i - 1)}
         \cup RegionPairs(ls, i + 1, SubSeq(open, 1, Len(open) - 1))
    ELSE RegionPairs(ls, i + 1, open)

\* C30: addRegionFolding pairs every !endregion line with the last !region
\* line before it that is still open and pushes one folding range, from the
\* line of the start to the line of the end, for each pair: two regions one
\* after the other give two ranges, a region inside another gives an inner
\* and an outer range.
C30_RegionsPairedAsStack ==
    segpc = "folded"
    => /\ {foldingRanges[k] : k \in 1..Len(foldingRanges)} = RegionPairs(lines, 1, <<>>)
       /\ Len(foldingRanges) = Cardinality(RegionPairs(lines, 1, <<>>))

====
